---- MODULE Spec2Model ----
(***************************************************************************)
(* K8s-Resource-Inspector: rule loader, validators, evaluation engine and  *)
(* the node / pod analyzers.                                               *)
(*                                                                         *)
(* Go values of type interface{} are records tagged with their dynamic     *)
(* type in field k.  Go strings that are compared, trimmed or parsed are   *)
(* sequences of one-character strings; identifiers that are only compared  *)
(* for equality (rule ids, metric names, operators, environments) are      *)
(* plain strings.  Numbers are integers.                                   *)
(***************************************************************************)
EXTENDS Integers, Sequences, FiniteSets, TLC

\* file:   the rules file on disk (status, modification time, document)
\* loader: a RuleLoader a caller created with NewRuleLoader
\* engine: the Engine, with the loader NewEngine gave it
\* arg:    the snapshot or arguments of the call a behaviour is about
\* ret:    what the last call returned
VARIABLES file, loader, engine, arg, ret

vars == <<file, loader, engine, arg, ret>>

-----------------------------------------------------------------------------
(* Bounds of the model *)

MaxMTime == 2
MaxItems == 6
MaxContainers == 2

-----------------------------------------------------------------------------
(* Go dynamic values *)

Nil == [k |-> "nil"]
F(n) == [k |-> "float64", n |-> n]
I(n) == [k |-> "int", n |-> n]
S(s) == [k |-> "string", s |-> s]
B(b) == [k |-> "bool", b |-> b]
Slice == [k |-> "[]string"]
MapSS(m) == [k |-> "map[string]string", m |-> m]
MapII(m) == [k |-> "map[interface{}]interface{}", m |-> m]

NoThresholds == [isNil |-> TRUE]
Thresholds(m) == [isNil |-> FALSE, m |-> m]

EmptyMap == <<>>

RECURSIVE DigitsOf(_)
DigitsOf(n) ==
  LET d == <<"0", "1", "2", "3", "4", "5", "6", "7", "8", "9">>
  IN IF n < 10 THEN <<d[n + 1]>> ELSE DigitsOf(n \div 10) \o <<d[(n % 10) + 1]>>

\* fmt.Sprintf("%v", v) for the scalar kinds; other kinds print an opaque text
Sprint(v) ==
  CASE v.k = "string" -> v.s
    [] v.k = "int" -> IF v.n < 0 THEN <<"-">> \o DigitsOf(0 - v.n) ELSE DigitsOf(v.n)
    [] v.k = "float64" -> IF v.n < 0 THEN <<"-">> \o DigitsOf(0 - v.n) ELSE DigitsOf(v.n)
    [] v.k = "bool" -> IF v.b THEN <<"t", "r", "u", "e">> ELSE <<"f", "a", "l", "s", "e">>
    [] v.k = "nil" -> <<"<", "n", "i", "l", ">">>
    [] OTHER -> <<"m", "a", "p", "[", "]">>

DigitValue(c) ==
  CASE c = "0" -> 0 [] c = "1" -> 1 [] c = "2" -> 2 [] c = "3" -> 3 [] c = "4" -> 4
    [] c = "5" -> 5 [] c = "6" -> 6 [] c = "7" -> 7 [] c = "8" -> 8 [] c = "9" -> 9
    [] OTHER -> -1

\* fmt.Sscanf(s, "%f", &f): the longest leading run of digits is the number,
\* trailing text is left unread; no leading digit is a scan error.
RECURSIVE ScanDigits(_, _, _)
ScanDigits(s, i, acc) ==
  IF i > Len(s) \/ DigitValue(s[i]) < 0 THEN acc
  ELSE ScanDigits(s, i + 1, acc * 10 + DigitValue(s[i]))

SscanfFloat(s) ==
  IF Len(s) = 0 \/ DigitValue(s[1]) < 0 THEN [ok |-> FALSE, n |-> 0]
  ELSE [ok |-> TRUE, n |-> ScanDigits(s, 1, 0)]

LowerChar(c) ==
  CASE c = "T" -> "t" [] c = "R" -> "r" [] c = "U" -> "u" [] c = "E" -> "e"
    [] c = "F" -> "f" [] c = "A" -> "a" [] c = "L" -> "l" [] c = "S" -> "s"
    [] c = "Y" -> "y" [] c = "N" -> "n" [] c = "O" -> "o"
    [] OTHER -> c

ToLower(s) == [i \in 1..Len(s) |-> LowerChar(s[i])]

IsSpace(c) == c \in {" ", "\t", "\n"}

RECURSIVE TrimLeft(_)
TrimLeft(s) == IF Len(s) > 0 /\ IsSpace(s[1]) THEN TrimLeft(Tail(s)) ELSE s

RECURSIVE TrimRight(_)
TrimRight(s) ==
  IF Len(s) > 0 /\ IsSpace(s[Len(s)]) THEN TrimRight(SubSeq(s, 1, Len(s) - 1)) ELSE s

TrimSpace(s) == TrimRight(TrimLeft(s))

Contains(s, sub) ==
  \E i \in 0..(Len(s) - Len(sub)) : SubSeq(s, i + 1, i + Len(sub)) = sub

\* regexp.MatchString over the patterns of the model: a pattern with an
\* unbalanced "(" does not compile; a pattern of literal characters matches
\* wherever it occurs.
RegexpMatchString(pattern, s) ==
  IF \E i \in 1..Len(pattern) : pattern[i] = "("
  THEN [ok |-> FALSE, matched |-> FALSE]
  ELSE [ok |-> TRUE, matched |-> Contains(s, pattern)]

\* mutant of toFloat64: nil converts to zero
toFloat64_NilIsZero(value) ==
  CASE value.k = "float64" -> [ok |-> TRUE, n |-> value.n]
    [] value.k = "int" -> [ok |-> TRUE, n |-> value.n]
    [] value.k = "string" -> SscanfFloat(value.s)
    [] value.k = "nil" -> [ok |-> TRUE, n |-> 0]
    [] OTHER -> [ok |-> FALSE, n |-> 0]

toFloat64(value) ==
  CASE value.k = "float64" -> [ok |-> TRUE, n |-> value.n]
    [] value.k = "int" -> [ok |-> TRUE, n |-> value.n]
    [] value.k = "string" -> SscanfFloat(value.s)
    [] OTHER -> [ok |-> FALSE, n |-> 0]

toString(value) ==
  IF value.k = "nil" THEN [ok |-> FALSE, s |-> <<>>]
  ELSE [ok |-> TRUE, s |-> Sprint(value)]

\* mutant of toBool: the spellings are compared as written
toBool_CaseSensitive(value) ==
  CASE value.k = "nil" -> [ok |-> FALSE, b |-> FALSE]
    [] value.k = "bool" -> [ok |-> TRUE, b |-> value.b]
    [] value.k = "int" -> [ok |-> TRUE, b |-> value.n # 0]
    [] value.k = "string" ->
         IF value.s \in {<<"t", "r", "u", "e">>, <<"y", "e", "s">>, <<"1">>}
         THEN [ok |-> TRUE, b |-> TRUE]
         ELSE IF value.s \in {<<"f", "a", "l", "s", "e">>, <<"n", "o">>, <<"0">>}
              THEN [ok |-> TRUE, b |-> FALSE]
              ELSE [ok |-> FALSE, b |-> FALSE]
    [] OTHER -> [ok |-> FALSE, b |-> FALSE]

toBool(value) ==
  CASE value.k = "nil" -> [ok |-> FALSE, b |-> FALSE]
    [] value.k = "bool" -> [ok |-> TRUE, b |-> value.b]
    [] value.k = "int" -> [ok |-> TRUE, b |-> value.n # 0]
    [] value.k = "string" ->
         LET lower == ToLower(value.s)
         IN IF lower \in {<<"t", "r", "u", "e">>, <<"y", "e", "s">>, <<"1">>}
            THEN [ok |-> TRUE, b |-> TRUE]
            ELSE IF lower \in {<<"f", "a", "l", "s", "e">>, <<"n", "o">>, <<"0">>}
                 THEN [ok |-> TRUE, b |-> FALSE]
                 ELSE [ok |-> FALSE, b |-> FALSE]
    [] OTHER -> [ok |-> FALSE, b |-> FALSE]

-----------------------------------------------------------------------------
(* Threshold resolution *)

\* len(condition.Thresholds): 0 for a nil map
LenThresholds(thresholds) ==
  IF thresholds.isNil THEN 0 ELSE Cardinality(DOMAIN thresholds.m)

\* mutant of getThresholdValue: the "default" entry is not consulted
getThresholdValue_NoDefault(condition, env) ==
  IF ~condition.Thresholds.isNil /\ env \in DOMAIN condition.Thresholds.m
  THEN condition.Thresholds.m[env]
  ELSE condition.Threshold

\* Engine.getThresholdValue
getThresholdValue(condition, env) ==
  IF ~condition.Thresholds.isNil /\ env \in DOMAIN condition.Thresholds.m
  THEN condition.Thresholds.m[env]
  ELSE IF ~condition.Thresholds.isNil /\ "default" \in DOMAIN condition.Thresholds.m
       THEN condition.Thresholds.m["default"]
       ELSE condition.Threshold

\* the resolution block at the head of NumericValidator.Validate
NumericThresholdValue(condition, env) ==
  IF LenThresholds(condition.Thresholds) > 0
  THEN IF env \in DOMAIN condition.Thresholds.m
       THEN condition.Thresholds.m[env]
       ELSE IF "default" \in DOMAIN condition.Thresholds.m
            THEN condition.Thresholds.m["default"]
            ELSE condition.Threshold
  ELSE condition.Threshold

\* the resolution block of StringValidator.Validate
StringThresholdValue(condition, env) ==
  IF LenThresholds(condition.Thresholds) > 0
  THEN IF env \in DOMAIN condition.Thresholds.m
       THEN condition.Thresholds.m[env]
       ELSE IF "default" \in DOMAIN condition.Thresholds.m
            THEN condition.Thresholds.m["default"]
            ELSE condition.Threshold
  ELSE condition.Threshold

\* the resolution block of BooleanValidator.Validate
BooleanThresholdValue(condition, env) ==
  IF LenThresholds(condition.Thresholds) > 0
  THEN IF env \in DOMAIN condition.Thresholds.m
       THEN condition.Thresholds.m[env]
       ELSE IF "default" \in DOMAIN condition.Thresholds.m
            THEN condition.Thresholds.m["default"]
            ELSE condition.Threshold
  ELSE condition.Threshold

\* the resolution block of MapValidator.Validate
MapThresholdValue(condition, env) ==
  IF LenThresholds(condition.Thresholds) > 0
  THEN IF env \in DOMAIN condition.Thresholds.m
       THEN condition.Thresholds.m[env]
       ELSE IF "default" \in DOMAIN condition.Thresholds.m
            THEN condition.Thresholds.m["default"]
            ELSE condition.Threshold
  ELSE condition.Threshold

-----------------------------------------------------------------------------
(* Validators.  A validation yields [err, passed, threshold]: err = "" when  *)
(* Validate returns a nil error, threshold is the value it compared with.   *)

Verdict(passed, threshold) == [err |-> "", passed |-> passed, threshold |-> threshold]
Failure(err, threshold) == [err |-> err, passed |-> FALSE, threshold |-> threshold]

\* mutant of NumericCompare: ">=" and "<=" exclude the boundary
NumericCompare_StrictBoundary(operator, actualFloat, thresholdFloat) ==
  CASE operator \in {">", ">="} -> [ok |-> TRUE, b |-> actualFloat > thresholdFloat]
    [] operator \in {"<", "<="} -> [ok |-> TRUE, b |-> actualFloat < thresholdFloat]
    [] operator = "==" -> [ok |-> TRUE, b |-> actualFloat = thresholdFloat]
    [] operator = "!=" -> [ok |-> TRUE, b |-> actualFloat # thresholdFloat]
    [] OTHER -> [ok |-> FALSE, b |-> FALSE]

\* the operator switch of NumericValidator.Validate
NumericCompare(operator, actualFloat, thresholdFloat) ==
  CASE operator = ">" -> [ok |-> TRUE, b |-> actualFloat > thresholdFloat]
    [] operator = ">=" -> [ok |-> TRUE, b |-> actualFloat >= thresholdFloat]
    [] operator = "<" -> [ok |-> TRUE, b |-> actualFloat < thresholdFloat]
    [] operator = "<=" -> [ok |-> TRUE, b |-> actualFloat <= thresholdFloat]
    [] operator = "==" -> [ok |-> TRUE, b |-> actualFloat = thresholdFloat]
    [] operator = "!=" -> [ok |-> TRUE, b |-> actualFloat # thresholdFloat]
    [] OTHER -> [ok |-> FALSE, b |-> FALSE]

\* mutant of NumericValidate: an unsupported operator gives a defaulted verdict
NumericValidate_DefaultVerdict(actualValue, condition, env) ==
  LET actualFloat == toFloat64(actualValue)
      thresholdValue == NumericThresholdValue(condition, env)
      thresholdFloat == toFloat64(thresholdValue)
      cmp == NumericCompare(condition.Operator, actualFloat.n, thresholdFloat.n)
  IN IF ~actualFloat.ok THEN Failure("actual not numeric", Nil)
     ELSE IF ~thresholdFloat.ok THEN Failure("threshold not numeric", thresholdValue)
     ELSE Verdict(cmp.b, thresholdValue)

NumericValidate(actualValue, condition, env) ==
  LET actualFloat == toFloat64(actualValue)
      thresholdValue == NumericThresholdValue(condition, env)
      thresholdFloat == toFloat64(thresholdValue)
      cmp == NumericCompare(condition.Operator, actualFloat.n, thresholdFloat.n)
  IN IF ~actualFloat.ok THEN Failure("actual not numeric", Nil)
     ELSE IF ~thresholdFloat.ok THEN Failure("threshold not numeric", thresholdValue)
     ELSE IF ~cmp.ok THEN Failure("numeric: unsupported operator", thresholdValue)
     ELSE Verdict(cmp.b, thresholdValue)

StringValidate(actualValue, condition, env) ==
  LET actualStr == toString(actualValue)
      thresholdValue == StringThresholdValue(condition, env)
      thresholdStr == toString(thresholdValue)
      op == condition.Operator
      re == RegexpMatchString(thresholdStr.s, actualStr.s)
  IN IF ~actualStr.ok THEN Failure("actual not a string", Nil)
     ELSE IF ~thresholdStr.ok THEN Failure("threshold not a string", thresholdValue)
     ELSE CASE op = "==" -> Verdict(actualStr.s = thresholdStr.s, thresholdValue)
            [] op = "!=" -> Verdict(actualStr.s # thresholdStr.s, thresholdValue)
            [] op = "contains" -> Verdict(Contains(actualStr.s, thresholdStr.s), thresholdValue)
            [] op = "matches" ->
                 IF ~re.ok THEN Failure("regexp match failed", thresholdValue)
                 ELSE Verdict(re.matched, thresholdValue)
            [] OTHER -> Failure("string: unsupported operator", thresholdValue)

BooleanValidate(actualValue, condition, env) ==
  LET actualBool == toBool(actualValue)
      thresholdValue == BooleanThresholdValue(condition, env)
      thresholdBool == toBool(thresholdValue)
      op == condition.Operator
  IN IF ~actualBool.ok THEN Failure("actual not a boolean", Nil)
     ELSE IF ~thresholdBool.ok THEN Failure("threshold not a boolean", thresholdValue)
     ELSE CASE op = "==" -> Verdict(actualBool.b = thresholdBool.b, thresholdValue)
            [] op = "!=" -> Verdict(actualBool.b # thresholdBool.b, thresholdValue)
            [] OTHER -> Failure("boolean: unsupported operator", thresholdValue)

\* MapValidator.convertToStringMap
convertToStringMap(value) ==
  CASE value.k = "map[string]string" -> [ok |-> TRUE, m |-> value.m]
    [] value.k = "map[string]interface{}" ->
         [ok |-> TRUE, m |-> [key \in DOMAIN value.m |-> Sprint(value.m[key])]]
    [] value.k = "map[interface{}]interface{}" ->
         [ok |-> TRUE, m |-> [key \in DOMAIN value.m |-> Sprint(value.m[key])]]
    [] OTHER -> [ok |-> FALSE, m |-> EmptyMap]

\* mutant of validateEquals: the two maps must also have the same keys
validateEquals_SameKeys(actual, expected) ==
  /\ DOMAIN actual = DOMAIN expected
  /\ \A key \in DOMAIN expected : actual[key] = expected[key]

validateEquals(actual, expected) ==
  \A key \in DOMAIN expected : key \in DOMAIN actual /\ actual[key] = expected[key]

validateContains(actual, expected) ==
  \A key \in DOMAIN expected : key \in DOMAIN actual /\ actual[key] = expected[key]

\* mutant of validateHasNonEmpty: the value is not trimmed
validateHasNonEmpty_NoTrim(actual, expected) ==
  \A key \in DOMAIN expected : key \in DOMAIN actual /\ actual[key] # <<>>

validateHasNonEmpty(actual, expected) ==
  \A key \in DOMAIN expected : key \in DOMAIN actual /\ TrimSpace(actual[key]) # <<>>

MapValidate(actualValue, condition, env) ==
  LET thresholdValue == MapThresholdValue(condition, env)
      expected == convertToStringMap(thresholdValue)
      op == condition.Operator
  IN IF actualValue.k # "map[string]string" THEN Failure("actual not a label map", Nil)
     ELSE IF ~expected.ok THEN Failure("threshold not a label map", thresholdValue)
     ELSE CASE op = "==" -> Verdict(validateEquals(actualValue.m, expected.m), thresholdValue)
            [] op = "contains" -> Verdict(validateContains(actualValue.m, expected.m), thresholdValue)
            [] op = "has_non_empty" ->
                 Verdict(validateHasNonEmpty(actualValue.m, expected.m), thresholdValue)
            [] OTHER -> Failure("map: unsupported operator", thresholdValue)

\* Engine.registerDefaultValidators
DefaultValidators == {"numeric", "string", "boolean", "map"}

\* dispatch of validator.Validate through the registry entry
Validate(metricType, actualValue, condition, env) ==
  CASE metricType = "numeric" -> NumericValidate(actualValue, condition, env)
    [] metricType = "string" -> StringValidate(actualValue, condition, env)
    [] metricType = "boolean" -> BooleanValidate(actualValue, condition, env)
    [] metricType = "map" -> MapValidate(actualValue, condition, env)

-----------------------------------------------------------------------------
(* Engine.EvaluateRule *)

\* Engine.formatResultMessage; the formatted operands are left out of the text
formatResultMessage(rule, passed) ==
  IF passed THEN [name |-> rule.Name, outcome |-> "passed"]
  ELSE IF rule.Condition.Operator = "has_non_empty"
       THEN IF rule.Condition.Threshold.k = "map[string]interface{}"
            THEN [name |-> rule.Name, outcome |-> "failed", expectation |-> "labels",
                  keys |-> DOMAIN rule.Condition.Threshold.m]
            ELSE [name |-> rule.Name, outcome |-> "failed", expectation |-> "labels",
                  keys |-> {}]
       ELSE [name |-> rule.Name, outcome |-> "failed",
             expectation |-> rule.Condition.Operator, keys |-> {}]

EvalError(err) == [err |-> err, hasResult |-> FALSE]

\* the end of EvaluateRule: v is what Validate returned; a validation error is
\* returned with no result, otherwise the RuleResult is built.  compared is
\* the threshold the validator compared with.
RuleResultOf(rule, actualValue, threshold, v) ==
  IF v.err # "" THEN EvalError(v.err)
  ELSE [err |-> "", hasResult |-> TRUE,
        RuleID |-> rule.ID, RuleName |-> rule.Name, Passed |-> v.passed,
        ActualValue |-> actualValue, ExpectedValue |-> threshold,
        Message |-> formatResultMessage(rule, v.passed),
        Severity |-> rule.Severity, compared |-> v.threshold]

\* mutant of EvaluateRuleAt: the validator is looked up before the Enabled check
EvaluateRuleAt_LookupFirst(validators, envResolve, envValidate, rule, metricType, actualValue) ==
  IF metricType \notin validators THEN EvalError("unknown metric type")
  ELSE IF ~rule.Enabled THEN EvalError("rule disabled")
  ELSE RuleResultOf(rule, actualValue, getThresholdValue(rule.Condition, envResolve),
                    Validate(metricType, actualValue, rule.Condition, envValidate))

\* mutant of EvaluateRuleAt: one read of e.environment serves both uses
EvaluateRuleAt_SingleRead(validators, envResolve, envValidate, rule, metricType, actualValue) ==
  IF ~rule.Enabled THEN EvalError("rule disabled")
  ELSE IF metricType \notin validators THEN EvalError("unknown metric type")
  ELSE RuleResultOf(rule, actualValue, getThresholdValue(rule.Condition, envValidate),
                    Validate(metricType, actualValue, rule.Condition, envValidate))

\* reads of e.environment: envResolve for getThresholdValue, envValidate for
\* the Validate call
EvaluateRuleAt(validators, envResolve, envValidate, rule, metricType, actualValue) ==
  IF ~rule.Enabled THEN EvalError("rule disabled")
  ELSE IF metricType \notin validators THEN EvalError("unknown metric type")
  ELSE RuleResultOf(rule, actualValue, getThresholdValue(rule.Condition, envResolve),
                    Validate(metricType, actualValue, rule.Condition, envValidate))

EvaluateRule(e, rule, metricType, actualValue) ==
  EvaluateRuleAt(e.validators, e.environment, e.environment, rule, metricType, actualValue)

-----------------------------------------------------------------------------
(* Rule documents.  A YAML rule is a function from the keys written in the  *)
(* document to their values; yaml.Unmarshal leaves the Go zero value in     *)
(* every field whose key is absent.                                         *)

YRule(id, category, severity, metric, operator, threshold, enabled) ==
  [id |-> id, name |-> id, category |-> category, severity |-> severity,
   metric |-> metric, operator |-> operator, threshold |-> threshold,
   enabled |-> enabled]

Without(y, key) == [f \in DOMAIN y \ {key} |-> y[f]]

With(y, key, value) == [f \in DOMAIN y \cup {key} |-> IF f = key THEN value ELSE y[f]]

StringField(y, key) == IF key \in DOMAIN y THEN y[key] ELSE ""

\* yaml.Unmarshal into a Rule
UnmarshalRule(y) ==
  [ID |-> StringField(y, "id"),
   Name |-> StringField(y, "name"),
   Category |-> StringField(y, "category"),
   Severity |-> StringField(y, "severity"),
   Condition |->
     [Metric |-> StringField(y, "metric"),
      Operator |-> StringField(y, "operator"),
      Threshold |-> IF "threshold" \in DOMAIN y THEN y["threshold"] ELSE Nil,
      Thresholds |-> IF "thresholds" \in DOMAIN y THEN Thresholds(y["thresholds"])
                     ELSE NoThresholds],
   Enabled |-> IF "enabled" \in DOMAIN y THEN y["enabled"] ELSE FALSE]

\* yaml.Unmarshal into a RulesConfig
Unmarshal(doc) ==
  IF ~doc.wellFormed THEN [ok |-> FALSE]
  ELSE [ok |-> TRUE,
        config |-> [isNil |-> FALSE,
                    APIVersion |-> doc.apiVersion,
                    Kind |-> doc.kind,
                    Environment |-> doc.environment,
                    ClusterEnvironments |-> doc.clusterEnvironments,
                    Rules |-> [i \in 1..Len(doc.rules) |-> UnmarshalRule(doc.rules[i])]]]

Doc(rules) ==
  [wellFormed |-> TRUE, apiVersion |-> "v1", kind |-> "RulesConfig",
   environment |-> "dev", clusterEnvironments |-> ("kind-dev" :> "dev"),
   rules |-> rules]

NodeCpu == YRule("node-high-cpu", "node", "critical", "cpu_utilization", ">=", I(90), TRUE)
NodeMemory ==
  With(YRule("node-high-memory", "node", "warning", "memory_utilization", ">=", I(85), TRUE),
       "thresholds", ("dev" :> I(95)))
NodeCpuText == YRule("node-cpu-text", "node", "warning", "cpu_utilization", "contains", I(90), TRUE)
NodeCpuOff == YRule("node-cpu-off", "node", "critical", "cpu_utilization", ">=", I(50), FALSE)
NodeAlloc ==
  YRule("node-cpu-alloc", "node", "info", "cpu_allocation_rate", ">", S(<<"8", "0">>), TRUE)
NodePressure == YRule("node-mem-pressure", "node", "critical", "memory_pressure", "==", B(TRUE), TRUE)
NodeNotReady == YRule("node-not-ready", "node", "critical", "ready", "==", B(FALSE), TRUE)
NodeReadyBad == YRule("node-ready-bad", "node", "warning", "ready", "==", I(90), FALSE)
PodCpu == YRule("pod-cpu-high", "pod", "warning", "pod_cpu_utilization", ">=", I(90), TRUE)
PodMemory ==
  Without(With(YRule("pod-memory-high", "pod", "warning", "pod_memory_utilization", ">=", Nil, TRUE),
               "thresholds", ("prod" :> I(80) @@ "default" :> I(90))), "threshold")
PodRestart == YRule("pod-restart-too-many", "pod", "critical", "pod_restart_count", ">=", I(3), TRUE)
PodNoProbes == YRule("pod-no-probes", "pod", "info", "pod_missing_probes", "==", B(TRUE), TRUE)
PodNoLimits ==
  YRule("pod-no-limits", "pod", "warning", "pod_missing_resource_limits", "==", B(TRUE), TRUE)
PodNotRunning ==
  YRule("pod-not-running", "pod", "warning", "pod_not_running_duration", ">=", I(30), TRUE)
PodRestartBad ==
  YRule("pod-restart-bad", "pod", "info", "pod_restart_count", "matches", S(<<"(">>), TRUE)
OwnerLabel ==
  YRule("require_owner_label", "deployment", "warning", "has_labels", "has_non_empty",
        MapII("owner" :> S(<<>>)), TRUE)

MainRules ==
  <<NodeCpuOff, NodeCpu, NodeMemory, NodeCpuText, NodeAlloc, NodePressure, NodeNotReady,
    NodeReadyBad, PodCpu, PodMemory, PodRestart, PodNoProbes, PodNoLimits, PodNotRunning,
    PodRestartBad, OwnerLabel,
    YRule("node-latency", "node", "warning", "network_latency", ">", I(10), TRUE),
    YRule("pod-cpu-idle", "pod", "info", "pod_cpu_utilization", "<", I(10), TRUE),
    Without(With(YRule("node-memory-dev", "node", "warning", "memory_utilization", ">=", Nil,
                       TRUE),
                 "thresholds", ("dev" :> I(60))), "threshold")>>

\* a second rule set: the same metric at two thresholds, a repeated id
StrictRules ==
  <<With(NodeCpu, "threshold", I(50)), NodeCpu,
    With(With(NodeCpu, "enabled", FALSE), "threshold", I(95)),
    With(With(NodeCpu, "severity", "error"), "threshold", I(10)),
    With(NodePressure, "operator", "!="),
    With(With(NodePressure, "id", "node-disk-pressure"), "metric", "disk_pressure"), PodCpu,
    With(PodRestart, "threshold", I(0))>>

RequiredKeys == {"id", "name", "category", "severity", "metric", "operator", "threshold"}

\* the documents the rules file can hold
Docs ==
  [name \in {"main", "strict", "norules", "malformed", "no_apiVersion", "bad_kind",
             "bad_operator", "empty_thresholds"} \cup {"no_" \o key : key \in RequiredKeys} |->
     CASE name = "main" -> Doc(MainRules)
       [] name = "strict" ->
            [Doc(StrictRules) EXCEPT !.environment = "",
                                     !.clusterEnvironments = ("default" :> "staging")]
       [] name = "norules" -> [Doc(<<>>) EXCEPT !.clusterEnvironments = EmptyMap]
       [] name = "malformed" -> [Doc(<<>>) EXCEPT !.wellFormed = FALSE]
       [] name = "no_apiVersion" -> [Doc(MainRules) EXCEPT !.apiVersion = ""]
       [] name = "bad_kind" -> [Doc(MainRules) EXCEPT !.kind = "RuleSet"]
       [] name = "bad_operator" -> Doc(<<NodeCpu, With(NodeMemory, "operator", "=~")>>)
       [] name = "empty_thresholds" ->
            Doc(<<NodeCpu, With(Without(NodeCpu, "threshold"), "thresholds", EmptyMap)>>)
       [] OTHER ->
            Doc(<<NodeCpu, Without(NodeCpu, CHOOSE key \in RequiredKeys : name = "no_" \o key)>>)]

DocNames == DOMAIN Docs

-----------------------------------------------------------------------------
(* RuleLoader *)

NoConfig == [isNil |-> TRUE]

\* NewRuleLoader
NewRuleLoader == [config |-> NoConfig, lastModified |-> 0]

isValidOperator(op) ==
  op \in {">", ">=", "<", "<=", "==", "!=", "contains", "matches", "has_non_empty"}

\* mutant of validateRule: the operator is not checked against the supported set
validateRule_AnyOperator(rule) ==
  IF rule.ID = "" THEN "rule has no id"
  ELSE IF rule.Name = "" THEN "rule has no name"
  ELSE IF rule.Category = "" THEN "rule has no category"
  ELSE IF rule.Severity = "" THEN "rule has no severity"
  ELSE IF rule.Condition.Metric = "" THEN "rule has no metric"
  ELSE IF rule.Condition.Operator = "" THEN "rule has no operator"
  ELSE IF rule.Condition.Threshold = Nil /\ LenThresholds(rule.Condition.Thresholds) = 0
       THEN "rule has no threshold"
  ELSE ""

\* the checks validateConfig makes on one rule, in order
validateRule(rule) ==
  IF rule.ID = "" THEN "rule has no id"
  ELSE IF rule.Name = "" THEN "rule has no name"
  ELSE IF rule.Category = "" THEN "rule has no category"
  ELSE IF rule.Severity = "" THEN "rule has no severity"
  ELSE IF rule.Condition.Metric = "" THEN "rule has no metric"
  ELSE IF rule.Condition.Operator = "" THEN "rule has no operator"
  ELSE IF rule.Condition.Threshold = Nil /\ LenThresholds(rule.Condition.Thresholds) = 0
       THEN "rule has no threshold"
  ELSE IF ~isValidOperator(rule.Condition.Operator) THEN "unsupported operator"
  ELSE ""

validateConfig(config) ==
  IF config.APIVersion = "" THEN "missing apiVersion"
  ELSE IF config.Kind = "" THEN "missing kind"
  ELSE IF config.Kind # "RulesConfig" THEN "unsupported kind"
  ELSE IF \E i \in 1..Len(config.Rules) : validateRule(config.Rules[i]) # ""
       THEN LET i == CHOOSE j \in 1..Len(config.Rules) :
                       /\ validateRule(config.Rules[j]) # ""
                       /\ \A h \in 1..(j - 1) : validateRule(config.Rules[h]) = ""
            IN validateRule(config.Rules[i])
       ELSE ""

\* mutant of LoadRules: the parsed document is stored before it is validated
LoadRules_StoreBeforeValidate(rl, f) ==
  IF f.status = "missing" THEN [err |-> "rules file does not exist", loader |-> rl]
  ELSE IF f.status = "noaccess" THEN [err |-> "stat failed", loader |-> rl]
  ELSE IF rl.config # NoConfig /\ f.mtime = rl.lastModified THEN [err |-> "", loader |-> rl]
  ELSE IF f.status = "unreadable" THEN [err |-> "read failed", loader |-> rl]
  ELSE LET parsed == Unmarshal(Docs[f.doc])
       IN IF ~parsed.ok THEN [err |-> "yaml parse failed", loader |-> rl]
          ELSE [err |-> validateConfig(parsed.config),
                loader |-> [config |-> parsed.config, lastModified |-> f.mtime]]

\* mutant of LoadRules: the file is read again on every call
LoadRules_AlwaysReload(rl, f) ==
  IF f.status = "missing" THEN [err |-> "rules file does not exist", loader |-> rl]
  ELSE IF f.status = "noaccess" THEN [err |-> "stat failed", loader |-> rl]
  ELSE IF f.status = "unreadable" THEN [err |-> "read failed", loader |-> rl]
  ELSE LET parsed == Unmarshal(Docs[f.doc])
       IN IF ~parsed.ok THEN [err |-> "yaml parse failed", loader |-> rl]
          ELSE IF validateConfig(parsed.config) # ""
               THEN [err |-> validateConfig(parsed.config), loader |-> rl]
               ELSE [err |-> "",
                     loader |-> [config |-> parsed.config, lastModified |-> f.mtime]]

\* mutant of LoadRules: the modification time is stored before the file is read
LoadRules_MarkerBeforeRead(rl, f) ==
  IF f.status = "missing" THEN [err |-> "rules file does not exist", loader |-> rl]
  ELSE IF f.status = "noaccess" THEN [err |-> "stat failed", loader |-> rl]
  ELSE IF rl.config # NoConfig /\ f.mtime = rl.lastModified THEN [err |-> "", loader |-> rl]
  ELSE IF f.status = "unreadable"
       THEN [err |-> "read failed", loader |-> [rl EXCEPT !.lastModified = f.mtime]]
  ELSE LET parsed == Unmarshal(Docs[f.doc])
       IN IF ~parsed.ok
          THEN [err |-> "yaml parse failed", loader |-> [rl EXCEPT !.lastModified = f.mtime]]
          ELSE IF validateConfig(parsed.config) # ""
               THEN [err |-> validateConfig(parsed.config),
                     loader |-> [rl EXCEPT !.lastModified = f.mtime]]
               ELSE [err |-> "",
                     loader |-> [config |-> parsed.config, lastModified |-> f.mtime]]

\* RuleLoader.LoadRules on the file f: the error returned and the loader afterwards
LoadRules(rl, f) ==
  IF f.status = "missing" THEN [err |-> "rules file does not exist", loader |-> rl]
  ELSE IF f.status = "noaccess" THEN [err |-> "stat failed", loader |-> rl]
  ELSE IF rl.config # NoConfig /\ f.mtime = rl.lastModified THEN [err |-> "", loader |-> rl]
  ELSE IF f.status = "unreadable" THEN [err |-> "read failed", loader |-> rl]
  ELSE LET parsed == Unmarshal(Docs[f.doc])
       IN IF ~parsed.ok THEN [err |-> "yaml parse failed", loader |-> rl]
          ELSE IF validateConfig(parsed.config) # ""
               THEN [err |-> validateConfig(parsed.config), loader |-> rl]
               ELSE [err |-> "",
                     loader |-> [config |-> parsed.config, lastModified |-> f.mtime]]

InSeq(x, s) == \E i \in 1..Len(s) : s[i] = x

\* mutant of matchesFilter: the severities of the filter are not consulted
matchesFilter_NoSeverities(rule, filter) ==
  /\ Len(filter.Categories) > 0 => InSeq(rule.Category, filter.Categories)
  /\ filter.Enabled # "unset" => rule.Enabled = (filter.Enabled = "true")

\* matchesFilter; filter.Enabled is "unset" for a nil pointer
matchesFilter(rule, filter) ==
  /\ Len(filter.Categories) > 0 => InSeq(rule.Category, filter.Categories)
  /\ Len(filter.Severities) > 0 => InSeq(rule.Severity, filter.Severities)
  /\ filter.Enabled # "unset" => rule.Enabled = (filter.Enabled = "true")

\* RuleLoader.GetRules
GetRules(rl, filter) ==
  IF rl.config = NoConfig THEN <<>>
  ELSE LET Keep(rule) == matchesFilter(rule, filter)
       IN SelectSeq(rl.config.Rules, Keep)

\* mutant of GetEnvironment: the "default" entry is not consulted
GetEnvironment_NoDefault(rl, clusterName) ==
  IF rl.config = NoConfig THEN "prod"
  ELSE IF clusterName \in DOMAIN rl.config.ClusterEnvironments
       THEN rl.config.ClusterEnvironments[clusterName]
       ELSE IF rl.config.Environment # "" THEN rl.config.Environment
            ELSE "prod"

\* RuleLoader.GetEnvironment
GetEnvironment(rl, clusterName) ==
  IF rl.config = NoConfig THEN "prod"
  ELSE IF clusterName \in DOMAIN rl.config.ClusterEnvironments
       THEN rl.config.ClusterEnvironments[clusterName]
       ELSE IF "default" \in DOMAIN rl.config.ClusterEnvironments
            THEN rl.config.ClusterEnvironments["default"]
            ELSE IF rl.config.Environment # "" THEN rl.config.Environment
                 ELSE "prod"

NoEngine == [exists |-> FALSE]

\* mutant of NewEngine: the engine starts in the document's environment
NewEngine_DocumentEnvironment(f) ==
  LET loaded == LoadRules(NewRuleLoader, f)
  IN IF loaded.err # "" THEN [err |-> loaded.err, engine |-> NoEngine]
     ELSE [err |-> "",
           engine |-> [exists |-> TRUE, loader |-> loaded.loader,
                       validators |-> DefaultValidators,
                       environment |-> GetEnvironment(loaded.loader, "kind-dev")]]

\* NewEngine on the file f: the fresh loader loads once; no engine on an error
NewEngine(f) ==
  LET loaded == LoadRules(NewRuleLoader, f)
  IN IF loaded.err # "" THEN [err |-> loaded.err, engine |-> NoEngine]
     ELSE [err |-> "",
           engine |-> [exists |-> TRUE, loader |-> loaded.loader,
                       validators |-> DefaultValidators, environment |-> "prod"]]

\* Engine.GetRules
EngineGetRules(e, filter) == GetRules(e.loader, filter)

\* Engine.DetermineEnvironment
DetermineEnvironment(e, clusterName) == GetEnvironment(e.loader, clusterName)

-----------------------------------------------------------------------------
(* Analyzers *)

\* Go's range over a map visits the keys in an unspecified order.  lists maps
\* each key to the items its iteration appends; a key that appends nothing
\* leaves no trace, so the orders of the other keys give every outcome.
Perms(keys) ==
  {p \in [1..Cardinality(keys) -> keys] :
     \A i, j \in 1..Cardinality(keys) : p[i] = p[j] => i = j}

RECURSIVE Flatten(_, _)
Flatten(order, lists) ==
  IF order = <<>> THEN <<>> ELSE lists[Head(order)] \o Flatten(Tail(order), lists)

\* mutant of RangeOutcomes: the loop returns after the first key that appends
RangeOutcomes_FirstKeyOnly(lists) ==
  IF \A key \in DOMAIN lists : lists[key] = <<>> THEN {<<>>}
  ELSE {lists[key] : key \in {k \in DOMAIN lists : lists[k] # <<>>}}

RangeOutcomes(lists) ==
  {Flatten(order, lists) : order \in Perms({key \in DOMAIN lists : lists[key] # <<>>})}

NodeFilter == [Categories |-> <<"node">>, Severities |-> <<>>, Enabled |-> "unset"]
PodFilter == [Categories |-> <<"pod">>, Severities |-> <<>>, Enabled |-> "unset"]

\* the AnalysisItem literal: passed is the value stored in its Passed field
AnalysisItem(rule, ruleResult, metric, threshold, passed) ==
  [RuleID |-> ruleResult.RuleID, Name |-> ruleResult.RuleName, Category |-> rule.Category,
   Severity |-> ruleResult.Severity, Metric |-> metric, Threshold |-> threshold,
   Passed |-> passed]

\* mutant of NodeRuleItem: the engine's result is stored without negation
NodeRuleItem_AsIs(rule, ruleResult, metric) ==
  IF ruleResult.err # "" THEN <<>>
  ELSE <<[RuleID |-> ruleResult.RuleID, Name |-> ruleResult.RuleName,
          Category |-> rule.Category, Severity |-> ruleResult.Severity,
          Metric |-> metric, Threshold |-> Sprint(ruleResult.ExpectedValue),
          Passed |-> ruleResult.Passed]>>

\* one pass of the loop "for _, rule := range allRules" of the node analyzer
\* in code/internal/analyzer/node, for a rule on the metric: an evaluation
\* error appends nothing, otherwise the item with the negated result
NodeRuleItem(rule, ruleResult, metric) ==
  IF ruleResult.err # "" THEN <<>>
  ELSE <<AnalysisItem(rule, ruleResult, metric, Sprint(ruleResult.ExpectedValue),
                      ~ruleResult.Passed)>>

\* mutant of NodeRuleItems: an evaluation error ends the loop
RECURSIVE NodeRuleItems_BreakOnError(_, _, _, _, _)
NodeRuleItems_BreakOnError(e, allRules, metric, metricType, value) ==
  IF allRules = <<>> THEN <<>>
  ELSE IF Head(allRules).Condition.Metric # metric
       THEN NodeRuleItems_BreakOnError(e, Tail(allRules), metric, metricType, value)
       ELSE IF EvaluateRule(e, Head(allRules), metricType, value).err # "" THEN <<>>
            ELSE NodeRuleItem(Head(allRules),
                              EvaluateRule(e, Head(allRules), metricType, value), metric)
                   \o NodeRuleItems_BreakOnError(e, Tail(allRules), metric, metricType, value)

\* the loop itself: rules on other metrics are skipped
RECURSIVE NodeRuleItems(_, _, _, _, _)
NodeRuleItems(e, allRules, metric, metricType, value) ==
  IF allRules = <<>> THEN <<>>
  ELSE (IF Head(allRules).Condition.Metric # metric THEN <<>>
        ELSE NodeRuleItem(Head(allRules),
                          EvaluateRule(e, Head(allRules), metricType, value), metric))
         \o NodeRuleItems(e, Tail(allRules), metric, metricType, value)

\* the same pass in the other copy of the node analyzer: the result is stored as is
NodeRuleItem016(rule, ruleResult, metric) ==
  IF ruleResult.err # "" THEN <<>>
  ELSE <<AnalysisItem(rule, ruleResult, metric, Sprint(ruleResult.ExpectedValue),
                      ruleResult.Passed)>>

RECURSIVE NodeRuleItems016(_, _, _, _, _)
NodeRuleItems016(e, allRules, metric, metricType, value) ==
  IF allRules = <<>> THEN <<>>
  ELSE (IF Head(allRules).Condition.Metric # metric THEN <<>>
        ELSE NodeRuleItem016(Head(allRules),
                             EvaluateRule(e, Head(allRules), metricType, value), metric))
         \o NodeRuleItems016(e, Tail(allRules), metric, metricType, value)

PressureNames ==
  {"memory_pressure", "cpu_pressure", "disk_pressure", "pid_pressure", "network_pressure"}

\* mutant of metricChecks: the allocation rate is not checked
metricChecks_UtilizationOnly(metricName, metric) ==
  (metricName \o "_utilization") :> F(metric.Utilization)

\* metricChecks of analyzeResourceMetric
metricChecks(metricName, metric) ==
  (metricName \o "_utilization") :> F(metric.Utilization)
    @@ (metricName \o "_allocation_rate") :> F(metric.AllocationRate)

analyzeResourceMetric(e, metricName, metric) ==
  LET allRules == EngineGetRules(e, NodeFilter)
      checks == metricChecks(metricName, metric)
  IN RangeOutcomes([key \in DOMAIN checks |->
                      NodeRuleItems(e, allRules, key, "numeric", checks[key])])

analyzePressureStatus(e, pressure) ==
  LET allRules == EngineGetRules(e, NodeFilter)
  IN RangeOutcomes([key \in PressureNames |->
                      NodeRuleItems(e, allRules, key, "boolean", B(pressure[key]))])

analyzeNodeConditions(e, ready) ==
  NodeRuleItems(e, EngineGetRules(e, NodeFilter), "ready", "boolean", B(ready))

analyzeResourceMetric016(e, metricName, metric) ==
  LET allRules == EngineGetRules(e, NodeFilter)
      checks == metricChecks(metricName, metric)
  IN RangeOutcomes([key \in DOMAIN checks |->
                      NodeRuleItems016(e, allRules, key, "numeric", checks[key])])

analyzePressureStatus016(e, pressure) ==
  LET allRules == EngineGetRules(e, NodeFilter)
  IN RangeOutcomes([key \in PressureNames |->
                      NodeRuleItems016(e, allRules, key, "boolean", B(pressure[key]))])

analyzeNodeConditions016(e, ready) ==
  NodeRuleItems016(e, EngineGetRules(e, NodeFilter), "ready", "boolean", B(ready))

\* mutant of Deduction: the severity "error" has an entry in the table
Deduction_ErrorSubtracts(severity) ==
  CASE severity = "critical" -> 20
    [] severity = "warning" -> 10
    [] severity = "info" -> 5
    [] severity = "error" -> 15
    [] OTHER -> 0

Deduction(severity) ==
  CASE severity = "critical" -> 20
    [] severity = "warning" -> 10
    [] severity = "info" -> 5
    [] OTHER -> 0

RECURSIVE totalDeduction(_)
totalDeduction(items) ==
  IF items = <<>> THEN 0
  ELSE (IF ~Head(items).Passed THEN Deduction(Head(items).Severity) ELSE 0)
         + totalDeduction(Tail(items))

\* mutant of calculateHealthScore: the score is not floored at 0
calculateHealthScore_NoFloor(items) ==
  IF Len(items) = 0 THEN 100 ELSE 100 - totalDeduction(items)

\* NodeAnalyzer.calculateHealthScore (both copies) and PodAnalyzer.calculateHealthScore
calculateHealthScore(items) ==
  IF Len(items) = 0 THEN 100
  ELSE LET score == 100 - totalDeduction(items)
       IN IF score < 0 THEN 0 ELSE score

\* the item lists AnalyzeNode can build for a non-nil node
AnalyzeNodeItems(e, node) ==
  {cpu \o memory \o storage \o pods \o pressure \o analyzeNodeConditions(e, node.Ready) :
     cpu \in analyzeResourceMetric(e, "cpu", node.CPU),
     memory \in analyzeResourceMetric(e, "memory", node.Memory),
     storage \in analyzeResourceMetric(e, "ephemeral_storage", node.EphemeralStorage),
     pods \in analyzeResourceMetric(e, "pods", node.Pods),
     pressure \in analyzePressureStatus(e, node.PressureStatus)}

AnalyzeNodeItems016(e, node) ==
  {cpu \o memory \o storage \o pods \o pressure \o analyzeNodeConditions016(e, node.Ready) :
     cpu \in analyzeResourceMetric016(e, "cpu", node.CPU),
     memory \in analyzeResourceMetric016(e, "memory", node.Memory),
     storage \in analyzeResourceMetric016(e, "ephemeral_storage", node.EphemeralStorage),
     pods \in analyzeResourceMetric016(e, "pods", node.Pods),
     pressure \in analyzePressureStatus016(e, node.PressureStatus)}

\* one pass of a rule loop of the pod analyzer, for a rule on the metric; the
\* missing-limits and missing-probes items store the fixed threshold "false"
PodRuleItem(rule, ruleResult, metric, fixedThreshold) ==
  IF ruleResult.err # "" THEN <<>>
  ELSE <<AnalysisItem(rule, ruleResult, metric,
                      IF fixedThreshold THEN <<"f", "a", "l", "s", "e">>
                      ELSE Sprint(ruleResult.ExpectedValue),
                      ~ruleResult.Passed)>>

RECURSIVE PodRuleItems(_, _, _, _, _, _)
PodRuleItems(e, allRules, metric, metricType, value, fixedThreshold) ==
  IF allRules = <<>> THEN <<>>
  ELSE (IF Head(allRules).Condition.Metric # metric THEN <<>>
        ELSE PodRuleItem(Head(allRules), EvaluateRule(e, Head(allRules), metricType, value),
                         metric, fixedThreshold))
         \o PodRuleItems(e, Tail(allRules), metric, metricType, value, fixedThreshold)

analyzePodStatus(e, pod) ==
  IF pod.Phase # "Running"
  THEN PodRuleItems(e, EngineGetRules(e, PodFilter), "pod_not_running_duration", "numeric",
                    F(pod.NotRunningMinutes), FALSE)
  ELSE <<>>

\* mutant of ContainerItems: a utilization of zero is evaluated like any other
ContainerItems_NoZeroGuard(e, allRules, container) ==
  PodRuleItems(e, allRules, "pod_cpu_utilization", "numeric",
               F(container.CPU.Utilization), FALSE)
  \o PodRuleItems(e, allRules, "pod_memory_utilization", "numeric",
                  F(container.Memory.Utilization), FALSE)
  \o (IF container.CpuLimitZero /\ container.MemoryLimitZero
      THEN PodRuleItems(e, allRules, "pod_missing_resource_limits", "boolean", B(TRUE), TRUE)
      ELSE <<>>)

\* the body of the container loop of analyzePodResources
ContainerItems(e, allRules, container) ==
  (IF container.CPU.Utilization > 0
   THEN PodRuleItems(e, allRules, "pod_cpu_utilization", "numeric",
                     F(container.CPU.Utilization), FALSE)
   ELSE <<>>)
  \o (IF container.Memory.Utilization > 0
      THEN PodRuleItems(e, allRules, "pod_memory_utilization", "numeric",
                        F(container.Memory.Utilization), FALSE)
      ELSE <<>>)
  \o (IF container.CpuLimitZero /\ container.MemoryLimitZero
      THEN PodRuleItems(e, allRules, "pod_missing_resource_limits", "boolean", B(TRUE), TRUE)
      ELSE <<>>)

RECURSIVE ContainersItems(_, _, _)
ContainersItems(e, allRules, containers) ==
  IF containers = <<>> THEN <<>>
  ELSE ContainerItems(e, allRules, Head(containers))
         \o ContainersItems(e, allRules, Tail(containers))

analyzePodResources(e, pod) == ContainersItems(e, EngineGetRules(e, PodFilter), pod.Containers)

analyzePodStability(e, pod) ==
  PodRuleItems(e, EngineGetRules(e, PodFilter), "pod_restart_count", "numeric",
               F(pod.TotalRestarts), FALSE)

analyzePodConfig(e, pod) ==
  IF ~pod.HasLivenessProbe /\ ~pod.HasReadinessProbe
  THEN PodRuleItems(e, EngineGetRules(e, PodFilter), "pod_missing_probes", "boolean", B(TRUE), TRUE)
  ELSE <<>>

AnalyzePodItems(e, pod) ==
  analyzePodStatus(e, pod) \o analyzePodResources(e, pod)
    \o analyzePodStability(e, pod) \o analyzePodConfig(e, pod)

-----------------------------------------------------------------------------
(* The rules file, a RuleLoader and NewEngine *)

Envs == {"prod", "dev", "staging"}

NoCall == [op |-> "none"]

NoFile == [status |-> "missing", mtime |-> 0, doc |-> "none"]

Init ==
  /\ file = NoFile
  /\ loader = NewRuleLoader
  /\ engine = NoEngine
  /\ arg = NoCall
  /\ ret = NoCall

\* somebody writes the rules file; the modification time is whatever the
\* file system records, it need not differ from the previous one
WriteFile ==
  \E d \in DocNames, t \in 1..MaxMTime :
    /\ file' = [status |-> "ok", mtime |-> t, doc |-> d]
    /\ ret' = [op |-> "WriteFile"]
    /\ UNCHANGED <<loader, engine, arg>>

RemoveFile ==
  /\ file.status # "missing"
  /\ file' = NoFile
  /\ ret' = [op |-> "RemoveFile"]
  /\ UNCHANGED <<loader, engine, arg>>

\* permissions change: the file cannot be read, or cannot even be stat'ed
Chmod ==
  \E st \in {"ok", "unreadable", "noaccess"} :
    /\ file.status # "missing"
    /\ file.status # st
    /\ file' = [file EXCEPT !.status = st]
    /\ ret' = [op |-> "Chmod"]
    /\ UNCHANGED <<loader, engine, arg>>

LoadRulesCall ==
  LET r == LoadRules(loader, file)
  IN /\ loader' = r.loader
     /\ ret' = [op |-> "LoadRules", err |-> r.err]
     /\ UNCHANGED <<file, engine, arg>>

EmptyFilter == [Categories |-> <<>>, Severities |-> <<>>, Enabled |-> "unset"]

Filters == {EmptyFilter, NodeFilter}

GetRulesCall ==
  \E filter \in Filters :
    /\ ret' = [op |-> "GetRules", filter |-> filter, rules |-> GetRules(loader, filter)]
    /\ UNCHANGED <<file, loader, engine, arg>>

NewEngineCall ==
  LET r == NewEngine(file)
  IN /\ ~engine.exists
     /\ engine' = r.engine
     /\ ret' = [op |-> "NewEngine", err |-> r.err]
     /\ UNCHANGED <<file, loader, arg>>

Next ==
  \/ WriteFile
  \/ RemoveFile
  \/ Chmod
  \/ LoadRulesCall
  \/ GetRulesCall
  \/ NewEngineCall

Spec == Init /\ [][Next]_vars

-----------------------------------------------------------------------------
(* An Engine built from the rules file, then calls on it *)

EngineDocs == {"main", "strict"}

SetEnvironmentCall ==
  \E env \in Envs :
    /\ engine.exists
    /\ engine' = [engine EXCEPT !.environment = env]
    /\ UNCHANGED <<file, loader, arg, ret>>

EvalOperators ==
  {">", ">=", "<", "<=", "==", "!=", "contains", "matches", "has_non_empty", "=~"}

OwnerKey == MapII("owner" :> S(<<>>))

EvalThresholds ==
  {I(90), I(20), S(<<"a", "b", "c">>), B(TRUE), OwnerKey, Nil,
   [k |-> "map[string]interface{}", m |-> ("owner" :> S(<<>>) @@ "team" :> S(<<>>))]}

EvalThresholdMaps ==
  {NoThresholds, Thresholds(EmptyMap), Thresholds("dev" :> I(5) @@ "default" :> I(9)),
   Thresholds("dev" :> I(5))}

EvalRules ==
  {[ID |-> "adhoc", Name |-> "adhoc", Category |-> "node", Severity |-> "critical",
    Condition |-> [Metric |-> "metric", Operator |-> op, Threshold |-> th, Thresholds |-> ths],
    Enabled |-> en] :
     op \in EvalOperators, th \in EvalThresholds, ths \in EvalThresholdMaps, en \in BOOLEAN}

MetricTypes == DefaultValidators \cup {"custom"}

EvalValues ==
  {F(95), F(7), S(<<"9", "5">>), S(<<"a", "b", "c">>), S(<<"Y", "e", "s">>), B(TRUE), I(0),
   MapSS("owner" :> <<"a">>), MapSS("owner" :> <<" ">>),
   MapSS("owner" :> <<>> @@ "team" :> <<"a">>), Nil, Slice}

InitEval ==
  /\ file = [status |-> "ok", mtime |-> 1, doc |-> "main"]
  /\ loader = NewRuleLoader
  /\ engine = NewEngine(file).engine
  /\ arg \in [op : {"EvaluateRule"}, rule : EvalRules, metricType : MetricTypes,
              actualValue : EvalValues]
  /\ ret = NoCall

EvaluateRuleCall ==
  /\ engine.exists
  /\ arg.op = "EvaluateRule"
  /\ ret = NoCall
  /\ ret' = [op |-> "EvaluateRule", environment |-> engine.environment,
             result |-> EvaluateRule(engine, arg.rule, arg.metricType, arg.actualValue)]
  /\ UNCHANGED <<file, loader, engine, arg>>

NextEval ==
  \/ SetEnvironmentCall
  \/ EvaluateRuleCall

SpecEval == InitEval /\ [][NextEval]_vars

-----------------------------------------------------------------------------
(* The analyzers on one snapshot *)

NilSnapshot == [isNil |-> TRUE]

Metric(utilization, allocationRate) ==
  [Utilization |-> utilization, AllocationRate |-> allocationRate]

Nodes ==
  {[isNil |-> FALSE,
    CPU |-> Metric(cpu, alloc), Memory |-> Metric(mem, 40),
    EphemeralStorage |-> Metric(30, 0), Pods |-> Metric(20, 0),
    PressureStatus |-> [key \in PressureNames |-> key = "memory_pressure" /\ pressure],
    Ready |-> ready] :
     cpu \in {20, 50, 90, 95}, alloc \in {50, 85}, mem \in {50, 90},
     pressure \in BOOLEAN, ready \in BOOLEAN}

ContainerKinds ==
  {[CPU |-> Metric(95, 0), Memory |-> Metric(50, 0),
    CpuLimitZero |-> FALSE, MemoryLimitZero |-> FALSE],
   [CPU |-> Metric(0, 0), Memory |-> Metric(85, 0),
    CpuLimitZero |-> TRUE, MemoryLimitZero |-> TRUE],
   [CPU |-> Metric(50, 0), Memory |-> Metric(95, 0),
    CpuLimitZero |-> TRUE, MemoryLimitZero |-> FALSE]}

Pods ==
  {[isNil |-> FALSE, Phase |-> phase, NotRunningMinutes |-> minutes,
    Containers |-> containers, TotalRestarts |-> restarts,
    HasLivenessProbe |-> liveness, HasReadinessProbe |-> readiness] :
     phase \in {"Running", "Pending"}, minutes \in {10, 45},
     containers \in UNION {[1..n -> ContainerKinds] : n \in 0..MaxContainers},
     restarts \in {0, 5}, liveness \in BOOLEAN, readiness \in BOOLEAN}

InitAnalyze ==
  /\ file \in {[status |-> "ok", mtime |-> 1, doc |-> d] : d \in EngineDocs}
  /\ loader = NewRuleLoader
  /\ engine = NewEngine(file).engine
  /\ arg \in [op : {"AnalyzeNode"}, node : Nodes \cup {NilSnapshot}]
            \cup [op : {"AnalyzePod"}, pod : Pods \cup {NilSnapshot}]
  /\ ret = NoCall

AnalysisError(op, err) ==
  [op |-> op, environment |-> engine.environment, err |-> err, hasResult |-> FALSE]

AnalysisResult(op, items) ==
  [op |-> op, environment |-> engine.environment, err |-> "", hasResult |-> TRUE,
   Items |-> items, HealthScore |-> calculateHealthScore(items)]

\* NodeAnalyzer.AnalyzeNode of code/internal/analyzer/node/analyzer.go
AnalyzeNodeCall ==
  /\ engine.exists
  /\ arg.op = "AnalyzeNode"
  /\ ret = NoCall
  /\ IF arg.node.isNil
     THEN ret' = AnalysisError("AnalyzeNode", "node is nil")
     ELSE \E items \in AnalyzeNodeItems(engine, arg.node) :
            ret' = AnalysisResult("AnalyzeNode", items)
  /\ UNCHANGED <<file, loader, engine, arg>>

\* NodeAnalyzer.AnalyzeNode of the other copy of the node analyzer
AnalyzeNode016Call ==
  /\ engine.exists
  /\ arg.op = "AnalyzeNode"
  /\ ret = NoCall
  /\ IF arg.node.isNil
     THEN ret' = AnalysisError("AnalyzeNode016", "node is nil")
     ELSE \E items \in AnalyzeNodeItems016(engine, arg.node) :
            ret' = AnalysisResult("AnalyzeNode016", items)
  /\ UNCHANGED <<file, loader, engine, arg>>

AnalyzePodCall ==
  /\ engine.exists
  /\ arg.op = "AnalyzePod"
  /\ ret = NoCall
  /\ IF arg.pod.isNil
     THEN ret' = AnalysisError("AnalyzePod", "pod is nil")
     ELSE ret' = AnalysisResult("AnalyzePod", AnalyzePodItems(engine, arg.pod))
  /\ UNCHANGED <<file, loader, engine, arg>>

NextAnalyze ==
  \/ SetEnvironmentCall
  \/ AnalyzeNodeCall
  \/ AnalyzeNode016Call
  \/ AnalyzePodCall

SpecAnalyze == InitAnalyze /\ [][NextAnalyze]_vars

-----------------------------------------------------------------------------
(* calculateHealthScore on a list of items *)

ScoreItems ==
  {[RuleID |-> "rule", Metric |-> "metric", Severity |-> severity, Passed |-> FALSE] :
     severity \in {"critical", "warning", "info", "error"}}
    \cup {[RuleID |-> "rule", Metric |-> "metric", Severity |-> "critical", Passed |-> TRUE]}

InitScore ==
  /\ file = NoFile
  /\ loader = NewRuleLoader
  /\ engine = NoEngine
  /\ arg \in [op : {"calculateHealthScore"},
              items : UNION {[1..n -> ScoreItems] : n \in 0..MaxItems}]
  /\ ret = NoCall

CalculateHealthScoreCall ==
  /\ arg.op = "calculateHealthScore"
  /\ ret = NoCall
  /\ ret' = [op |-> "calculateHealthScore", score |-> calculateHealthScore(arg.items)]
  /\ UNCHANGED <<file, loader, engine, arg>>

NextScore == CalculateHealthScoreCall

SpecScore == InitScore /\ [][NextScore]_vars

-----------------------------------------------------------------------------
(* EvaluateRule on one goroutine and SetEnvironment on another, same Engine. *)
(* arg holds the two frames: pc and envResolve of the EvaluateRule call,     *)
(* setter the string a SetEnvironment call is storing ("idle" between calls). *)
(* A string is two words; the store of SetEnvironment is two steps and a     *)
(* read that falls between them is unsynchronized.                           *)

InitRace ==
  /\ file = [status |-> "ok", mtime |-> 1, doc |-> "main"]
  /\ loader = NewRuleLoader
  /\ engine = NewEngine(file).engine
  /\ arg \in [op : {"EvaluateRule"}, metricType : {"numeric", "custom"},
              rule :
                {[ID |-> "adhoc", Name |-> "adhoc", Category |-> "node", Severity |-> "critical",
                  Condition |-> [Metric |-> "metric", Operator |-> op, Threshold |-> I(90), Thresholds |-> ths],
                  Enabled |-> en] :
                   op \in {">", "<"},
                   ths \in {NoThresholds, Thresholds("dev" :> I(5)),
                            Thresholds("dev" :> I(5) @@ "default" :> I(9))},
                   en \in BOOLEAN},
              actualValue : {F(7), F(95), S(<<"a", "b", "c">>)},
              pc : {"start"}, envResolve : {""}, setter : {"idle"}, overlap : {FALSE}]
  /\ ret = NoCall

\* what a read of e.environment can yield: during a store the old string, the
\* new one, or "torn", a string made of the words of both, which is no key of
\* any Thresholds map
ReadEnvironment ==
  IF arg.setter = "idle" THEN {engine.environment}
  ELSE {engine.environment, arg.setter, "torn"}

\* SetEnvironment, first word stored
SetEnvironmentStore ==
  \E env \in Envs :
    /\ arg.setter = "idle"
    /\ arg' = [arg EXCEPT !.setter = env, !.overlap = @ \/ arg.pc = "resolved"]
    /\ UNCHANGED <<file, loader, engine, ret>>

\* SetEnvironment, second word stored; the call returns
SetEnvironmentReturn ==
  /\ arg.setter # "idle"
  /\ engine' = [engine EXCEPT !.environment = arg.setter]
  /\ arg' = [arg EXCEPT !.setter = "idle", !.overlap = @ \/ arg.pc = "resolved"]
  /\ UNCHANGED <<file, loader, ret>>

\* EvaluateRule up to the call of getThresholdValue: the first read of
\* e.environment.  A call that fails the Enabled check or the validator
\* lookup makes no use of what is read.
EvaluateRuleResolve ==
  \E env \in ReadEnvironment :
    /\ arg.pc = "start"
    /\ arg' = [arg EXCEPT !.pc = "resolved", !.envResolve = env,
                          !.overlap = @ \/ arg.setter # "idle"]
    /\ UNCHANGED <<file, loader, engine, ret>>

\* EvaluateRule from the call of Validate: the second read of e.environment
EvaluateRuleValidate ==
  \E env \in ReadEnvironment :
    /\ arg.pc = "resolved"
    /\ arg' = [arg EXCEPT !.pc = "done", !.overlap = @ \/ arg.setter # "idle"]
    /\ ret' = [op |-> "EvaluateRule", envResolve |-> arg.envResolve, environment |-> env,
               overlap |-> arg.overlap \/ arg.setter # "idle",
               result |-> EvaluateRuleAt(engine.validators, arg.envResolve, env, arg.rule,
                                         arg.metricType, arg.actualValue)]
    /\ UNCHANGED <<file, loader, engine>>

NextRace ==
  \/ SetEnvironmentStore
  \/ SetEnvironmentReturn
  \/ EvaluateRuleResolve
  \/ EvaluateRuleValidate

SpecRace == InitRace /\ [][NextRace]_vars

-----------------------------------------------------------------------------
(* LoadRules on one goroutine and GetRules on another, same RuleLoader.       *)
(* arg holds the two frames: load and pending for LoadRules (its position    *)
(* and the loader fields it is about to store), get for GetRules.  Nothing   *)
(* orders the accesses of the two goroutines to rl.config; unpublished tells *)
(* that rl.config was stored by a LoadRules call that had not returned when  *)
(* the GetRules call in progress began.                                      *)

InitReload ==
  /\ file \in [status : {"ok"}, mtime : 1..MaxMTime, doc : DocNames] \cup {NoFile}
  /\ loader \in {NewRuleLoader}
                 \cup {LoadRules(NewRuleLoader, [status |-> "ok", mtime |-> 1, doc |-> d]).loader :
                         d \in {"main", "strict"}}
  /\ engine = NoEngine
  /\ arg \in [op : {"Reload"}, filter : Filters, load : {"idle"}, pending : {loader},
              get : {"idle"}, unpublished : {FALSE}]
  /\ ret = NoCall

\* LoadRules up to the assignments: Stat, the marker check, ReadFile,
\* Unmarshal and validateConfig work on the file and on locals.  On an error
\* or an unchanged marker the call returns with the loader as it was.
LoadRulesValidate ==
  LET r == LoadRules(loader, file)
  IN /\ arg.load = "idle"
     /\ arg' = IF r.loader = loader THEN arg
               ELSE [arg EXCEPT !.load = "validated", !.pending = r.loader]
     /\ UNCHANGED <<file, loader, engine, ret>>

\* rl.config = &config
LoadRulesStoreConfig ==
  /\ arg.load = "validated"
  /\ loader' = [loader EXCEPT !.config = arg.pending.config]
  /\ arg' = [arg EXCEPT !.load = "stored", !.unpublished = TRUE]
  /\ UNCHANGED <<file, engine, ret>>

\* rl.lastModified = info.ModTime(); return nil
LoadRulesReturn ==
  /\ arg.load = "stored"
  /\ loader' = [loader EXCEPT !.lastModified = arg.pending.lastModified]
  /\ arg' = [arg EXCEPT !.load = "idle", !.unpublished = (arg.get = "checked")]
  /\ UNCHANGED <<file, engine, ret>>

\* GetRules: if rl.config == nil { return nil }
GetRulesCheck ==
  /\ arg.get = "idle"
  /\ IF loader.config = NoConfig
     THEN /\ arg' = [arg EXCEPT !.get = "done"]
          /\ ret' = [op |-> "GetRules", config |-> NoConfig, raced |-> FALSE, rules |-> <<>>]
     ELSE /\ arg' = [arg EXCEPT !.get = "checked"]
          /\ ret' = ret
  /\ UNCHANGED <<file, loader, engine>>

\* GetRules: the loop over rl.config.Rules.  rl.config is read again.  What a
\* LoadRules call wrote into the document it stored need not be visible to a
\* goroutine it is not synchronized with: the slice may still read as empty,
\* or its elements as zero Rule values.
GetRulesRange ==
  /\ arg.get = "checked"
  /\ \E rules \in IF arg.unpublished
                  THEN {loader.config.Rules, <<>>,
                        [i \in 1..Len(loader.config.Rules) |-> UnmarshalRule(EmptyMap)]}
                  ELSE {loader.config.Rules} :
       ret' = [op |-> "GetRules", config |-> loader.config, raced |-> arg.unpublished,
               rules |-> GetRules([loader EXCEPT !.config.Rules = rules], arg.filter)]
  /\ arg' = [arg EXCEPT !.get = "done"]
  /\ UNCHANGED <<file, loader, engine>>

NextReload ==
  \/ LoadRulesValidate
  \/ LoadRulesStoreConfig
  \/ LoadRulesReturn
  \/ GetRulesCheck
  \/ GetRulesRange

SpecReload == InitReload /\ [][NextReload]_vars

-----------------------------------------------------------------------------
(* A serialized sequence of calls on one Engine.  arg holds the call just    *)
(* made and its input, and lastSet, the argument of the latest SetEnvironment *)
(* ("none" before the first).                                                *)

InitEngine ==
  /\ file \in [status : {"ok"}, mtime : {1}, doc : {"main", "strict", "norules", "bad_kind"}]
  /\ loader = NewRuleLoader
  /\ engine = NoEngine
  /\ arg = [op |-> "none", lastSet |-> "none", in |-> Nil]
  /\ ret = NoCall

NewEngineOp ==
  /\ ~engine.exists
  /\ engine' = NewEngine(file).engine
  /\ arg' = [arg EXCEPT !.op = "NewEngine", !.in = S(file.doc)]
  /\ ret' = [op |-> "NewEngine", err |-> NewEngine(file).err]
  /\ UNCHANGED <<file, loader>>

SetEnvironmentOp ==
  \E env \in Envs :
    /\ engine.exists
    /\ engine' = [engine EXCEPT !.environment = env]
    /\ arg' = [op |-> "SetEnvironment", lastSet |-> env, in |-> S(env)]
    /\ ret' = [op |-> "SetEnvironment"]
    /\ UNCHANGED <<file, loader>>

EvaluateRuleOp ==
  \E ths \in {NoThresholds, Thresholds("dev" :> I(5)), Thresholds("staging" :> I(50)),
               Thresholds("dev" :> I(5) @@ "default" :> I(9))},
     actualValue \in {F(7), F(95)} :
    LET rule == [ID |-> "adhoc", Name |-> "adhoc", Category |-> "node",
                 Severity |-> "critical",
                 Condition |-> [Metric |-> "metric", Operator |-> ">", Threshold |-> I(90),
                                Thresholds |-> ths],
                 Enabled |-> TRUE]
    IN /\ engine.exists
       /\ arg' = [arg EXCEPT !.op = "EvaluateRule",
                             !.in = [rule |-> rule, actualValue |-> actualValue]]
       /\ ret' = [op |-> "EvaluateRule",
                  result |-> EvaluateRule(engine, rule, "numeric", actualValue)]
       /\ UNCHANGED <<file, loader, engine>>

GetRulesOp ==
  \E filter \in Filters :
    /\ engine.exists
    /\ arg' = [arg EXCEPT !.op = "GetRules", !.in = filter]
    /\ ret' = [op |-> "GetRules", rules |-> EngineGetRules(engine, filter)]
    /\ UNCHANGED <<file, loader, engine>>

GetValidatorOp ==
  \E metricType \in {"numeric", "map", "custom"} :
    /\ engine.exists
    /\ arg' = [arg EXCEPT !.op = "GetValidator", !.in = S(metricType)]
    /\ ret' = [op |-> "GetValidator",
               err |-> IF metricType \in engine.validators THEN ""
                       ELSE "unknown metric type"]
    /\ UNCHANGED <<file, loader, engine>>

DetermineEnvironmentOp ==
  \E clusterName \in {"kind-dev", "kind-other"} :
    /\ engine.exists
    /\ arg' = [arg EXCEPT !.op = "DetermineEnvironment", !.in = S(clusterName)]
    /\ ret' = [op |-> "DetermineEnvironment",
               environment |-> DetermineEnvironment(engine, clusterName)]
    /\ UNCHANGED <<file, loader, engine>>

NextEngine ==
  \/ NewEngineOp
  \/ SetEnvironmentOp
  \/ EvaluateRuleOp
  \/ GetRulesOp
  \/ GetValidatorOp
  \/ DetermineEnvironmentOp

SpecEngine == InitEngine /\ [][NextEngine]_vars

-----------------------------------------------------------------------------
(* One call of a validator's Validate *)

\* label maps over the keys owner and team, a key present or not
LabelMaps(values) == UNION {[keys -> values] : keys \in SUBSET {"owner", "team"}}

\* a condition that carries the threshold in Threshold, and one that carries
\* it in Thresholds["prod"] with no "default" entry
ConditionsOf(operators, thresholds) ==
  {[Metric |-> "metric", Operator |-> op, Threshold |-> th, Thresholds |-> NoThresholds] :
     op \in operators, th \in thresholds}
    \cup {[Metric |-> "metric", Operator |-> op, Threshold |-> Nil,
           Thresholds |-> Thresholds("prod" :> th)] : op \in operators, th \in thresholds}

ValidateInputs ==
  [metricType : {"map"},
   actualValue : {MapSS(m) : m \in LabelMaps({<<>>, <<" ">>, <<"a">>, <<" ", "a", " ">>})}
                   \cup {Nil, S(<<"a">>)},
   condition : ConditionsOf({"==", "contains", "has_non_empty", ">"},
                            {MapSS(m) : m \in LabelMaps({<<>>, <<"a">>})}
                              \cup {MapII("owner" :> S(<<"a">>)), Nil, S(<<"a">>)}),
   env : {"prod", "dev"}]
    \cup
  [metricType : {"numeric"},
   actualValue : {F(9), F(10), F(11), I(10), S(<<"1", "0">>), S(<<"9", "x">>),
                  S(<<"a", "b", "c">>), Nil, B(TRUE)},
   condition : ConditionsOf({">", ">=", "<", "<=", "==", "!=", "contains", "=~"},
                            {I(10), F(9), S(<<"1", "0">>), S(<<"a", "b", "c">>), Nil, B(TRUE)}),
   env : {"prod", "dev"}]
    \cup
  [metricType : {"boolean"},
   actualValue : {B(TRUE), B(FALSE), S(<<"Y", "e", "s">>), S(<<"N", "O">>), S(<<"1">>),
                  S(<<"0">>), S(<<"T", "R", "U", "E">>), S(<<"f", "a", "l", "s", "e">>),
                  S(<<"o", "n">>), I(0), I(1), I(5), F(1), Nil},
   condition : ConditionsOf({"==", "!=", ">"},
                            {B(TRUE), B(FALSE), S(<<"y", "e", "s">>), S(<<"F", "a", "l", "s", "e">>),
                             S(<<"o", "n">>), I(0), I(5), F(1), Nil}),
   env : {"prod", "dev"}]

InitValidate ==
  /\ file = [status |-> "ok", mtime |-> 1, doc |-> "main"]
  /\ loader = NewRuleLoader
  /\ engine = NewEngine(file).engine
  /\ \E input \in ValidateInputs :
       arg = [op |-> "Validate", metricType |-> input.metricType,
              actualValue |-> input.actualValue, condition |-> input.condition,
              env |-> input.env]
  /\ ret = NoCall

ValidateCall ==
  /\ arg.op = "Validate"
  /\ ret = NoCall
  /\ ret' = [op |-> "Validate",
             v |-> Validate(arg.metricType, arg.actualValue, arg.condition, arg.env)]
  /\ UNCHANGED <<file, loader, engine, arg>>

NextValidate == ValidateCall

SpecValidate == InitValidate /\ [][NextValidate]_vars

-----------------------------------------------------------------------------
(* Queries on a loader: GetRules with a filter, GetEnvironment for a cluster *)

\* a loader that never loaded, and the loaders LoadRules leaves after it
\* accepted a document with the given environment settings
QueryLoaders ==
  {NewRuleLoader}
    \cup {[config |-> [Unmarshal(Docs[d]).config EXCEPT !.Environment = env,
                                                        !.ClusterEnvironments = ce],
           lastModified |-> 1] :
            d \in {"main", "strict", "norules"}, env \in {"", "test"},
            ce \in {EmptyMap, "kind-dev" :> "dev", "default" :> "staging",
                   "kind-dev" :> "dev" @@ "default" :> "staging"}}

InitQuery ==
  /\ file = [status |-> "ok", mtime |-> 1, doc |-> "main"]
  /\ loader \in QueryLoaders
  /\ engine = NoEngine
  /\ arg \in [op : {"GetRules"},
              filter : [Categories : {<<>>, <<"node">>, <<"node", "pod">>, <<"service">>},
                        Severities : {<<>>, <<"warning", "critical">>, <<"info">>},
                        Enabled : {"unset", "true", "false"}]]
            \cup [op : {"GetEnvironment"}, clusterName : {"kind-dev", "kind-other", "default"}]
  /\ ret = NoCall

GetRulesQuery ==
  /\ arg.op = "GetRules"
  /\ ret = NoCall
  /\ ret' = [op |-> "GetRules", rules |-> GetRules(loader, arg.filter)]
  /\ UNCHANGED <<file, loader, engine, arg>>

GetEnvironmentQuery ==
  /\ arg.op = "GetEnvironment"
  /\ ret = NoCall
  /\ ret' = [op |-> "GetEnvironment", environment |-> GetEnvironment(loader, arg.clusterName)]
  /\ UNCHANGED <<file, loader, engine, arg>>

NextQuery ==
  \/ GetRulesQuery
  \/ GetEnvironmentQuery

SpecQuery == InitQuery /\ [][NextQuery]_vars

-----------------------------------------------------------------------------
(* Properties *)

\* the arithmetic meaning of a numeric rule condition
ConditionMet(operator, actual, threshold) ==
  CASE operator = ">" -> actual > threshold
    [] operator = ">=" -> actual >= threshold
    [] operator = "<" -> actual < threshold
    [] operator = "<=" -> actual <= threshold
    [] operator = "==" -> actual = threshold
    [] operator = "!=" -> actual # threshold

NumericOperators == {">", ">=", "<", "<=", "==", "!="}

\* threshold precedence: the environment's entry, else the "default" entry,
\* else the single Threshold field
Precedence(condition, env) ==
  IF ~condition.Thresholds.isNil /\ env \in DOMAIN condition.Thresholds.m
  THEN condition.Thresholds.m[env]
  ELSE IF ~condition.Thresholds.isNil /\ "default" \in DOMAIN condition.Thresholds.m
       THEN condition.Thresholds.m["default"]
       ELSE condition.Threshold

IsNumber(value) ==
  \/ value.k \in {"float64", "int"}
  \/ value.k = "string" /\ value.s # <<>> /\ DigitValue(value.s[1]) >= 0

\* the engine as it was when the recorded call ran
EngineAt(env) == [engine EXCEPT !.environment = env]

LoadedRules == engine.loader.config.Rules

\* the metrics a node snapshot exposes: name, value kind and value
NodeChecks(node) ==
  UNION {{[src |-> name, metric |-> name \o "_utilization", metricType |-> "numeric",
           value |-> F(node[field].Utilization)],
          [src |-> name, metric |-> name \o "_allocation_rate", metricType |-> "numeric",
           value |-> F(node[field].AllocationRate)]} :
           <<name, field>> \in {<<"cpu", "CPU">>, <<"memory", "Memory">>,
                                <<"ephemeral_storage", "EphemeralStorage">>,
                                <<"pods", "Pods">>}}
    \cup {[src |-> key, metric |-> key, metricType |-> "boolean",
           value |-> B(node.PressureStatus[key])] : key \in PressureNames}
    \cup {[src |-> "ready", metric |-> "ready", metricType |-> "boolean",
           value |-> B(node.Ready)]}

\* the metrics a pod snapshot exposes, one entry per container where the
\* metric is per container
PodChecks(pod) ==
  (IF pod.Phase # "Running"
   THEN {[src |-> "pod", metric |-> "pod_not_running_duration", metricType |-> "numeric",
          value |-> F(pod.NotRunningMinutes)]}
   ELSE {})
  \cup {[src |-> i, metric |-> "pod_cpu_utilization", metricType |-> "numeric",
         value |-> F(pod.Containers[i].CPU.Utilization)] :
          i \in {j \in 1..Len(pod.Containers) : pod.Containers[j].CPU.Utilization > 0}}
  \cup {[src |-> i, metric |-> "pod_memory_utilization", metricType |-> "numeric",
         value |-> F(pod.Containers[i].Memory.Utilization)] :
          i \in {j \in 1..Len(pod.Containers) : pod.Containers[j].Memory.Utilization > 0}}
  \cup {[src |-> i, metric |-> "pod_missing_resource_limits", metricType |-> "boolean",
         value |-> B(TRUE)] :
          i \in {j \in 1..Len(pod.Containers) :
                   pod.Containers[j].CpuLimitZero /\ pod.Containers[j].MemoryLimitZero}}
  \cup {[src |-> "pod", metric |-> "pod_restart_count", metricType |-> "numeric",
         value |-> F(pod.TotalRestarts)]}
  \cup (IF ~pod.HasLivenessProbe /\ ~pod.HasReadinessProbe
        THEN {[src |-> "pod", metric |-> "pod_missing_probes", metricType |-> "boolean",
               value |-> B(TRUE)]}
        ELSE {})

AnalyzeOps == {"AnalyzeNode", "AnalyzeNode016", "AnalyzePod"}

Analyzed == ret.op \in AnalyzeOps /\ ret.hasResult

SnapshotChecks == IF arg.op = "AnalyzePod" THEN PodChecks(arg.pod) ELSE NodeChecks(arg.node)

SnapshotCategory == IF arg.op = "AnalyzePod" THEN "pod" ELSE "node"

\* the (rule, metric) pairs of the analyzed snapshot whose evaluation by the
\* engine succeeds, each with the engine's RuleResult
Evaluations ==
  {[rule |-> j, check |-> c,
    result |-> EvaluateRule(EngineAt(ret.environment), LoadedRules[j], c.metricType, c.value)] :
     <<j, c>> \in {<<i, d>> \in (1..Len(LoadedRules)) \X SnapshotChecks :
                     /\ LoadedRules[i].Category = SnapshotCategory
                     /\ LoadedRules[i].Condition.Metric = d.metric
                     /\ EvaluateRule(EngineAt(ret.environment), LoadedRules[i],
                                     d.metricType, d.value).err = ""}}

\* item is the AnalysisItem of the evaluation ev
ItemOf(item, ev) ==
  /\ item.RuleID = ev.result.RuleID
  /\ item.Metric = ev.check.metric
  /\ item.Severity = ev.result.Severity
  /\ item.Category = LoadedRules[ev.rule].Category
  /\ ev.check.metricType = "numeric" => item.Threshold = Sprint(ev.result.ExpectedValue)

\* C1: in the node analyzer of code/internal/analyzer/node/analyzer.go, every
\* enabled node rule on a numeric metric of the node whose threshold resolves
\* to a number yields an item, and every item on a numeric metric stems from
\* such a rule; the item has Passed = FALSE exactly when the observed value
\* satisfies the rule's condition against the resolved threshold.
C1_NodeItemUnhealthyIffConditionMet ==
  (ret.op = "AnalyzeNode" /\ ret.hasResult) =>
    LET checks == {c \in NodeChecks(arg.node) : c.metricType = "numeric"}
        Applies(rule, c) ==
          /\ rule.Category = "node"
          /\ rule.Enabled
          /\ rule.Condition.Metric = c.metric
          /\ rule.Condition.Operator \in NumericOperators
          /\ IsNumber(Precedence(rule.Condition, ret.environment))
        Verdict1(item, rule, c) ==
          /\ item.RuleID = rule.ID
          /\ item.Metric = c.metric
          /\ item.Severity = rule.Severity
          /\ item.Threshold = Sprint(Precedence(rule.Condition, ret.environment))
          /\ item.Passed = ~ConditionMet(rule.Condition.Operator, c.value.n,
                                         toFloat64(Precedence(rule.Condition, ret.environment)).n)
    IN /\ \A j \in 1..Len(LoadedRules), c \in checks :
            Applies(LoadedRules[j], c) =>
              \E i \in 1..Len(ret.Items) : Verdict1(ret.Items[i], LoadedRules[j], c)
       /\ \A i \in 1..Len(ret.Items) :
            (\E c \in checks : c.metric = ret.Items[i].Metric) =>
              \E j \in 1..Len(LoadedRules), c \in checks :
                Applies(LoadedRules[j], c) /\ Verdict1(ret.Items[i], LoadedRules[j], c)

\* C1 witness: CPU utilization 95 against "cpu_utilization >= 90, critical"
\* gives a failing item
C1_Witness ==
  /\ ret.op = "AnalyzeNode"
  /\ ret.hasResult
  /\ arg.node.CPU.Utilization = 95
  /\ \E i \in 1..Len(ret.Items) :
       /\ ret.Items[i].RuleID = "node-high-cpu"
       /\ ret.Items[i].Metric = "cpu_utilization"
       /\ ret.Items[i].Threshold = <<"9", "0">>
       /\ ret.Items[i].Severity = "critical"
       /\ ~ret.Items[i].Passed

\* C2: every AnalysisItem of every analyzer path stores the negation of the
\* RuleResult.Passed the engine returned for that evaluation.
C2_EveryItemNegatesEngine ==
  Analyzed =>
    \A i \in 1..Len(ret.Items) :
      \E ev \in Evaluations : ItemOf(ret.Items[i], ev) /\ ret.Items[i].Passed = ~ev.result.Passed

\* C3: RuleResult.Passed is TRUE exactly when the rule's alerting condition
\* is not met by the actual value (numeric rules: "metric >= 90" with 95
\* gives Passed = FALSE, with a value below 90 Passed = TRUE).
C3_PassedMeansConditionNotMet ==
  (ret.op = "EvaluateRule" /\ ret.result.hasResult /\ arg.metricType = "numeric") =>
    ret.result.Passed =
      ~ConditionMet(arg.rule.Condition.Operator, toFloat64(arg.actualValue).n,
                    toFloat64(Precedence(arg.rule.Condition, ret.environment)).n)

\* C4: the threshold the validator compared with and the ExpectedValue of the
\* RuleResult are the same value, the one the precedence Thresholds[env],
\* Thresholds["default"], Threshold selects.
C4_OneThresholdByPrecedence ==
  (ret.op = "EvaluateRule" /\ ret.result.hasResult) =>
    /\ ret.result.ExpectedValue = Precedence(arg.rule.Condition, ret.environment)
    /\ ret.result.compared = Precedence(arg.rule.Condition, ret.environment)

\* C4 witness: Thresholds = {dev: 5, default: 9}, Threshold = 20 under
\* "staging" reports and compares with 9
C4_Witness ==
  /\ ret.op = "EvaluateRule"
  /\ ret.result.hasResult
  /\ ret.environment = "staging"
  /\ arg.rule.Condition.Threshold = I(20)
  /\ arg.rule.Condition.Thresholds = Thresholds("dev" :> I(5) @@ "default" :> I(9))
  /\ ret.result.ExpectedValue = I(9)
  /\ ret.result.compared = I(9)

\* C5: HealthScore = max(0, 100 - (20c + 10w + 5i)) with c, w, i the numbers
\* of failing items of severity critical, warning, info, each failing item
\* counted on its own; passing items do not count; the score lies in 0..100.
C5_HealthScoreFormula ==
  ret.op = "calculateHealthScore" =>
    LET Failing(severity) ==
          Cardinality({i \in 1..Len(arg.items) :
                         ~arg.items[i].Passed /\ arg.items[i].Severity = severity})
        raw == 100 - (20 * Failing("critical") + 10 * Failing("warning") + 5 * Failing("info"))
    IN /\ ret.score = IF raw < 0 THEN 0 ELSE raw
       /\ ret.score \in 0..100

\* C5 witness: six failing critical items of one rule, scored 0
C5_Witness ==
  /\ ret.op = "calculateHealthScore"
  /\ Len(arg.items) = 6
  /\ \A i \in 1..6 : ~arg.items[i].Passed /\ arg.items[i].Severity = "critical"
  /\ ret.score = 0

\* the operators each validator supports
SupportedOperators(metricType) ==
  CASE metricType = "numeric" -> NumericOperators
    [] metricType = "string" -> {"==", "!=", "contains", "matches"}
    [] metricType = "boolean" -> {"==", "!="}
    [] metricType = "map" -> {"==", "contains", "has_non_empty"}

\* the values each validator can coerce, as actual value and as threshold
CoercibleActual(metricType, value) ==
  CASE metricType = "numeric" -> IsNumber(value)
    [] metricType = "string" -> value.k # "nil"
    [] metricType = "boolean" ->
         \/ value.k \in {"bool", "int"}
         \/ value.k = "string"
            /\ ToLower(value.s) \in {<<"t", "r", "u", "e">>, <<"y", "e", "s">>, <<"1">>,
                                     <<"f", "a", "l", "s", "e">>, <<"n", "o">>, <<"0">>}
    [] metricType = "map" -> value.k = "map[string]string"

CoercibleThreshold(metricType, value) ==
  IF metricType = "map"
  THEN value.k \in {"map[string]string", "map[string]interface{}",
                    "map[interface{}]interface{}"}
  ELSE CoercibleActual(metricType, value)

\* C6: for an enabled rule, an unregistered value kind, an actual value or a
\* resolved threshold the validator cannot coerce, or an operator the validator
\* does not support gives an error and no RuleResult.
C6_ErrorsGiveNoResult ==
  (ret.op = "EvaluateRule" /\ arg.rule.Enabled) =>
    ((\/ arg.metricType \notin DefaultValidators
      \/ ~CoercibleActual(arg.metricType, arg.actualValue)
      \/ ~CoercibleThreshold(arg.metricType, Precedence(arg.rule.Condition, ret.environment))
      \/ arg.rule.Condition.Operator \notin SupportedOperators(arg.metricType))
       => (ret.result.err # "" /\ ~ret.result.hasResult))

\* C6 witness: ">=" with kind "boolean" on coercible operands is an error
C6_Witness ==
  /\ ret.op = "EvaluateRule"
  /\ arg.rule.Enabled
  /\ arg.metricType = "boolean"
  /\ arg.rule.Condition.Operator = ">="
  /\ arg.actualValue = B(TRUE)
  /\ Precedence(arg.rule.Condition, ret.environment) = B(TRUE)
  /\ ret.result.err # ""
  /\ ~ret.result.hasResult

\* C7: a disabled rule gives the disabled-rule error and no RuleResult, for
\* every value kind and value, before the validator lookup.
C7_DisabledRuleIsAnError ==
  (ret.op = "EvaluateRule" /\ ~arg.rule.Enabled) =>
    (ret.result.err = "rule disabled" /\ ~ret.result.hasResult)

\* C7 witness: a disabled rule evaluated with an unregistered value kind
C7_Witness ==
  /\ ret.op = "EvaluateRule"
  /\ ~arg.rule.Enabled
  /\ arg.metricType \notin engine.validators
  /\ ret.result.err = "rule disabled"

\* the snapshot handed to the analyzer
Snapshot == IF arg.op = "AnalyzePod" THEN arg.pod ELSE arg.node

\* the (rule, metric) pairs of the analyzed snapshot whose evaluation errors
FailedEvaluations ==
  {<<i, d>> \in (1..Len(LoadedRules)) \X SnapshotChecks :
     /\ LoadedRules[i].Category = SnapshotCategory
     /\ LoadedRules[i].Condition.Metric = d.metric
     /\ EvaluateRule(EngineAt(ret.environment), LoadedRules[i], d.metricType, d.value).err # ""}

\* C8: AnalyzeNode and AnalyzePod on a non-nil snapshot return a result and
\* no error; the result has exactly one item for every (metric, rule) pair
\* whose evaluation succeeds and none for a pair whose evaluation errors, and
\* its HealthScore is the score of these items.  On a nil snapshot they
\* return an error and no result.
C8_AnalysisSurvivesRuleErrors ==
  ret.op \in AnalyzeOps =>
    IF Snapshot.isNil
    THEN ret.err # "" /\ ~ret.hasResult
    ELSE /\ ret.err = ""
         /\ ret.hasResult
         /\ Len(ret.Items) = Cardinality(Evaluations)
         /\ \A ev \in Evaluations : \E i \in 1..Len(ret.Items) : ItemOf(ret.Items[i], ev)
         /\ \A i \in 1..Len(ret.Items) : \E ev \in Evaluations : ItemOf(ret.Items[i], ev)
         /\ LET Failing(severity) ==
                   Cardinality({i \in 1..Len(ret.Items) :
                                  ~ret.Items[i].Passed /\ ret.Items[i].Severity = severity})
                 raw == 100 - (20 * Failing("critical") + 10 * Failing("warning")
                                 + 5 * Failing("info"))
             IN ret.HealthScore = IF raw < 0 THEN 0 ELSE raw

\* C8 witness: a node analysis in which the evaluation of some rule errors and
\* the result still holds a failing, scored item on the same metric
C8_Witness ==
  /\ ret.op = "AnalyzeNode"
  /\ ~Snapshot.isNil
  /\ ret.hasResult
  /\ ret.HealthScore < 100
  /\ \E <<j, c>> \in FailedEvaluations :
       \E i \in 1..Len(ret.Items) : ret.Items[i].Metric = c.metric /\ ~ret.Items[i].Passed

\* the nine operators of the rule language
NineOperators == {">", ">=", "<", "<=", "==", "!=", "contains", "matches", "has_non_empty"}

\* a rule as written in the document has every required key with a non-empty
\* value, a supported operator and a threshold or a non-empty thresholds map
WellFormedYRule(y) ==
  /\ \A key \in {"id", "name", "category", "severity", "metric", "operator"} :
       key \in DOMAIN y /\ y[key] # ""
  /\ y["operator"] \in NineOperators
  /\ \/ "threshold" \in DOMAIN y /\ y["threshold"] # Nil
     \/ "thresholds" \in DOMAIN y /\ DOMAIN y["thresholds"] # {}

\* the same conditions on a loaded Rule
WellFormedRule(rule) ==
  /\ rule.ID # "" /\ rule.Name # "" /\ rule.Category # "" /\ rule.Severity # ""
  /\ rule.Condition.Metric # ""
  /\ rule.Condition.Operator \in NineOperators
  /\ \/ rule.Condition.Threshold # Nil
     \/ ~rule.Condition.Thresholds.isNil /\ DOMAIN rule.Condition.Thresholds.m # {}

\* the file exists, parses, and every rule of its document is well formed
AcceptableFile(f) ==
  /\ f.status = "ok"
  /\ Docs[f.doc].wellFormed
  /\ \A i \in 1..Len(Docs[f.doc].rules) : WellFormedYRule(Docs[f.doc].rules[i])

\* every rule of the set a loader holds is well formed
LoadedSetWellFormed(rl) ==
  rl.config # NoConfig =>
    \A i \in 1..Len(rl.config.Rules) : WellFormedRule(rl.config.Rules[i])

\* Stat succeeds and the file's last-modified marker is the stored one
MarkerUnchanged(rl, f) ==
  /\ rl.config # NoConfig
  /\ f.status \in {"ok", "unreadable"}
  /\ f.mtime = rl.lastModified

\* what holds of every NewEngine step and of the loaded sets after every step
EngineOnlyFromAcceptableFile ==
  /\ ret'.op = "NewEngine" =>
       /\ (ret'.err = "") = engine'.exists
       /\ engine'.exists => AcceptableFile(file)
  /\ LoadedSetWellFormed(loader')
  /\ engine'.exists => LoadedSetWellFormed(engine'.loader)

\* C9 as stated: a LoadRules call succeeds only if the file exists, parses and
\* every rule of its document is well formed; a failing call leaves the rules
\* visible through GetRules as they were; NewEngine gives no Engine on a file
\* that is not acceptable; every rule of a loaded set is well formed.
C9_LoadRulesValidates ==
  [][/\ ret'.op = "LoadRules" =>
          /\ ret'.err = "" => AcceptableFile(file)
          /\ ret'.err # "" => loader' = loader
      /\ EngineOnlyFromAcceptableFile]_vars

\* C9 amended: a LoadRules call made with no rule set loaded, or with a
\* last-modified marker that differs from the stored one, succeeds only if the
\* file exists, parses and every rule of its document is well formed, and then
\* the loaded set is that document's; a failing call leaves the rules visible
\* through GetRules as they were; NewEngine gives no Engine on a file that is
\* not acceptable; every rule of a loaded set is well formed.
C9_ReadingLoadRulesValidates ==
  [][/\ (ret'.op = "LoadRules" /\ ~MarkerUnchanged(loader, file)) =>
          /\ ret'.err = "" =>
               /\ AcceptableFile(file)
               /\ loader' = [config |-> Unmarshal(Docs[file.doc]).config,
                             lastModified |-> file.mtime]
          /\ ret'.err # "" => loader' = loader
      /\ EngineOnlyFromAcceptableFile]_vars

\* C9 witness: with a rule set loaded, LoadRules has just refused a rewritten
\* file whose document has a rule with an unsupported operator; the loader
\* still holds the earlier, well-formed set
C9_Witness ==
  /\ ret.op = "LoadRules"
  /\ ret.err = "unsupported operator"
  /\ file.status = "ok"
  /\ file.doc = "bad_operator"
  /\ ~AcceptableFile(file)
  /\ loader.config # NoConfig
  /\ loader.lastModified # file.mtime
  /\ Len(GetRules(loader, EmptyFilter)) > 0
  /\ LoadedSetWellFormed(loader)

\* C10: once a rule set is loaded, every LoadRules call made while the file's
\* last-modified marker equals the stored marker returns success and leaves
\* the loaded rule set and the stored marker as they were.
C10_UnchangedMarkerLoadIsIdempotent ==
  [][(ret'.op = "LoadRules" /\ MarkerUnchanged(loader, file)) =>
       (ret'.err = "" /\ loader' = loader)]_vars

\* C10 witness: the file was rewritten with another document under the same
\* last-modified marker, and LoadRules has just succeeded with the loaded set
\* still the earlier one
C10_Witness ==
  /\ ret.op = "LoadRules"
  /\ ret.err = ""
  /\ MarkerUnchanged(loader, file)
  /\ file.status = "ok"
  /\ Unmarshal(Docs[file.doc]).ok
  /\ loader.config # Unmarshal(Docs[file.doc]).config

\* the rules a loader holds, none before a load
RulesOf(rl) == IF rl.config = NoConfig THEN <<>> ELSE rl.config.Rules

\* AND across the dimensions of a filter, OR within one
FilterAdmits(rule, filter) ==
  /\ \/ filter.Categories = <<>>
     \/ \E k \in 1..Len(filter.Categories) : filter.Categories[k] = rule.Category
  /\ \/ filter.Severities = <<>>
     \/ \E k \in 1..Len(filter.Severities) : filter.Severities[k] = rule.Severity
  /\ \/ filter.Enabled = "unset"
     \/ filter.Enabled = "true" /\ rule.Enabled
     \/ filter.Enabled = "false" /\ ~rule.Enabled

C13_EnvironmentPrecedence ==
  (arg.op = "GetEnvironment" /\ ret.op = "GetEnvironment") =>
    LET ce == IF loader.config = NoConfig THEN EmptyMap ELSE loader.config.ClusterEnvironments
        global == IF loader.config = NoConfig THEN "" ELSE loader.config.Environment
    IN ret.environment =
         IF arg.clusterName \in DOMAIN ce THEN ce[arg.clusterName]
         ELSE IF "default" \in DOMAIN ce THEN ce["default"]
         ELSE IF global # "" THEN global
         ELSE "prod"

\* C13 witness: a cluster that is not listed, with a "default" entry and a
\* global environment both present, gets the "default" entry
C13_Witness ==
  /\ arg.op = "GetEnvironment"
  /\ ret.op = "GetEnvironment"
  /\ loader.config # NoConfig
  /\ arg.clusterName = "kind-other"
  /\ loader.config.ClusterEnvironments = ("kind-dev" :> "dev" @@ "default" :> "staging")
  /\ loader.config.Environment = "test"
  /\ ret.environment = "staging"

\* C18: in every rule set LoadRules has accepted the rule IDs are pairwise
\* distinct: GetRules with the empty filter returns no two rules of one ID.
C18_AcceptedIDsAreDistinct ==
  LET all == GetRules(loader, EmptyFilter)
  IN \A i, j \in 1..Len(all) : all[i].ID = all[j].ID => i = j

\* C19: every rule of a rule set LoadRules has accepted has a Severity among
\* critical, warning and info.
C19_AcceptedSeveritiesAreKnown ==
  loader.config # NoConfig =>
    \A i \in 1..Len(loader.config.Rules) :
      loader.config.Rules[i].Severity \in {"critical", "warning", "info"}

\* the condition's threshold as the call resolves it
Resolved == Precedence(arg.condition, arg.env)

\* the label map a threshold stands for; none for a value that is not a map
IsLabelMap(value) == value.k \in {"map[string]string", "map[interface{}]interface{}"}

LabelsOf(value) ==
  IF value.k = "map[string]string" THEN value.m
  ELSE [key \in DOMAIN value.m |-> value.m[key].s]

\* a call of the map validator whose operands are both label maps
MapCall(operators) ==
  /\ arg.op = "Validate" /\ ret.op = "Validate"
  /\ arg.metricType = "map"
  /\ arg.condition.Operator \in operators
  /\ arg.actualValue.k = "map[string]string"
  /\ IsLabelMap(Resolved)

\* C14: map validator, operator has_non_empty: true exactly when every key of
\* the resolved threshold map is in the actual map with a value that has a
\* character other than white space; threshold values and further actual
\* keys play no part.
C14_HasNonEmpty ==
  MapCall({"has_non_empty"}) =>
    /\ ret.v.err = ""
    /\ ret.v.passed =
         \A key \in DOMAIN LabelsOf(Resolved) :
           /\ key \in DOMAIN arg.actualValue.m
           /\ \E i \in 1..Len(arg.actualValue.m[key]) : ~IsSpace(arg.actualValue.m[key][i])

\* C14 witness: the threshold asks for owner; the actual map has owner with
\* spaces around a letter and a further key, and the threshold's value differs
C14_Witness ==
  /\ MapCall({"has_non_empty"})
  /\ DOMAIN LabelsOf(Resolved) = {"owner"}
  /\ LabelsOf(Resolved)["owner"] = <<>>
  /\ arg.actualValue.m = ("owner" :> <<" ", "a", " ">> @@ "team" :> <<>>)
  /\ ret.v.err = ""
  /\ ret.v.passed

NumberRead(value) ==
  CASE value.k \in {"float64", "int"} -> [ok |-> TRUE, n |-> value.n]
    [] value = S(<<"1", "0">>) -> [ok |-> TRUE, n |-> 10]
    [] value = S(<<"9", "x">>) -> [ok |-> TRUE, n |-> 9]
    [] OTHER -> [ok |-> FALSE, n |-> 0]

NumericCall ==
  /\ arg.op = "Validate" /\ ret.op = "Validate"
  /\ arg.metricType = "numeric"

\* C16: numeric validator: for >, >=, <, <=, ==, != the result is the
\* arithmetic comparison of the coerced actual value with the coerced
\* resolved threshold, >= and <= true at equality; another operator or an
\* operand that is no number gives an error.
C16_NumericComparison ==
  NumericCall =>
    LET actual == NumberRead(arg.actualValue)
        threshold == NumberRead(Resolved)
    IN IF arg.condition.Operator \in NumericOperators /\ actual.ok /\ threshold.ok
       THEN /\ ret.v.err = ""
            /\ ret.v.passed = ConditionMet(arg.condition.Operator, actual.n, threshold.n)
            /\ (arg.condition.Operator \in {">=", "<="} /\ actual.n = threshold.n)
                  => ret.v.passed
       ELSE ret.v.err # ""

\* C16 witness: 10 >= 10 is true
C16_Witness ==
  /\ NumericCall
  /\ arg.condition.Operator = ">="
  /\ arg.actualValue = F(10)
  /\ Resolved = I(10)
  /\ ret.v.err = ""
  /\ ret.v.passed

\* the truth value a spelling stands for, in any letter case
SpellingRead(value) ==
  CASE value.k = "bool" -> [ok |-> TRUE, b |-> value.b]
    [] value \in {S(<<"Y", "e", "s">>), S(<<"y", "e", "s">>), S(<<"T", "R", "U", "E">>),
                  S(<<"1">>), I(1)} -> [ok |-> TRUE, b |-> TRUE]
    [] value \in {S(<<"N", "O">>), S(<<"f", "a", "l", "s", "e">>),
                  S(<<"F", "a", "l", "s", "e">>), S(<<"0">>), I(0)} -> [ok |-> TRUE, b |-> FALSE]
    [] OTHER -> [ok |-> FALSE, b |-> FALSE]

\* SpellingRead, and every integer: zero is false and the others are true
TruthRead(value) ==
  IF value.k = "int" THEN [ok |-> TRUE, b |-> value.n # 0] ELSE SpellingRead(value)

BooleanCall ==
  /\ arg.op = "Validate" /\ ret.op = "Validate"
  /\ arg.metricType = "boolean"

\* C17 as stated: both operands are coerced as booleans or as the spellings
\* true/yes/1 and false/no/0 in any letter case; "==" is equality and "!="
\* inequality of the two; another operator or an operand outside the
\* spellings gives an error.
C17_SpellingsOnly ==
  BooleanCall =>
    LET actual == SpellingRead(arg.actualValue)
        threshold == SpellingRead(Resolved)
    IN IF arg.condition.Operator \in {"==", "!="} /\ actual.ok /\ threshold.ok
       THEN /\ ret.v.err = ""
            /\ ret.v.passed = ((arg.condition.Operator = "==") = (actual.b = threshold.b))
       ELSE ret.v.err # ""

\* C17 amended: as C17, and an integer operand is coerced too: zero to false
\* and every other integer to true.
C17_SpellingsAndIntegers ==
  BooleanCall =>
    LET actual == TruthRead(arg.actualValue)
        threshold == TruthRead(Resolved)
    IN IF arg.condition.Operator \in {"==", "!="} /\ actual.ok /\ threshold.ok
       THEN /\ ret.v.err = ""
            /\ ret.v.passed = ((arg.condition.Operator = "==") = (actual.b = threshold.b))
       ELSE ret.v.err # ""

\* C17 witness: the integer 5 equals the spelling "yes"
C17_Witness ==
  /\ BooleanCall
  /\ arg.condition.Operator = "=="
  /\ arg.actualValue = I(5)
  /\ Resolved = S(<<"y", "e", "s">>)
  /\ ret.v.err = ""
  /\ ret.v.passed

\* an EvaluateRule call that ran beside SetEnvironment calls returned a result
RaceResult ==
  /\ ret.op = "EvaluateRule"
  /\ ret.result.hasResult

\* C20: EvaluateRule reads the environment twice, unsynchronized with
\* SetEnvironment: ExpectedValue is the threshold of the environment read
\* first, Passed is computed against the threshold of the environment read
\* second, and a SetEnvironment between the reads makes them differ; when no
\* SetEnvironment call overlaps the EvaluateRule call the two agree.
C20_TwoEnvironmentReads ==
  RaceResult =>
    /\ ret.result.ExpectedValue = Precedence(arg.rule.Condition, ret.envResolve)
    /\ ret.result.compared = Precedence(arg.rule.Condition, ret.environment)
    /\ ret.result.Passed =
         ConditionMet(arg.rule.Condition.Operator, arg.actualValue.n, ret.result.compared.n)
    /\ ~ret.overlap =>
         /\ ret.envResolve = ret.environment
         /\ ret.result.ExpectedValue = ret.result.compared

\* C20 witness: a SetEnvironment landed between the reads; ExpectedValue is
\* one environment's threshold and Passed is the verdict against another's,
\* opposite to the verdict against ExpectedValue
C20_Witness ==
  /\ RaceResult
  /\ ret.overlap
  /\ ret.envResolve \in Envs /\ ret.environment \in Envs
  /\ ret.result.ExpectedValue # ret.result.compared
  /\ ret.result.Passed #
       ConditionMet(arg.rule.Condition.Operator, arg.actualValue.n, ret.result.ExpectedValue.n)

\* the rules of a sequence a filter admits, in their order, each once
AdmittedOf(all, filter) ==
  LET kept == {i \in 1..Len(all) : FilterAdmits(all[i], filter)}
      Nth(k) == CHOOSE i \in kept : Cardinality({j \in kept : j < i}) = k - 1
  IN [k \in 1..Cardinality(kept) |-> all[Nth(k)]]

\* config is one whole document that passes validation
ValidatedVersion(config) ==
  /\ \E d \in DocNames : Docs[d].wellFormed /\ config = Unmarshal(Docs[d]).config
  /\ config.APIVersion # "" /\ config.Kind = "RulesConfig"
  /\ \A i \in 1..Len(config.Rules) : WellFormedRule(config.Rules[i])

\* the rules GetRules returned are those of ret.config, or none before a load
ReturnsOneVersion ==
  IF ret.config = NoConfig THEN ret.rules = <<>>
  ELSE /\ ValidatedVersion(ret.config)
       /\ ret.rules = AdmittedOf(ret.config.Rules, arg.filter)

\* C11 as stated: every GetRules call, one interleaved with a LoadRules on the
\* same loader included, returns rules of exactly one validated document
\* version.
C11_EveryGetRulesReturnsOneVersion ==
  (arg.op = "Reload" /\ ret.op = "GetRules") => ReturnsOneVersion

\* C11 amended: the set the loader holds is always one whole validated
\* document and changes only in LoadRules' assignment, to the document that
\* call validated; every GetRules call that reads a set whose LoadRules call
\* had returned before the GetRules call began returns rules of exactly one
\* validated version.
C11_SerializedGetRulesReturnsOneVersion ==
  /\ [](arg.op = "Reload" =>
          /\ loader.config # NoConfig => ValidatedVersion(loader.config)
          /\ (ret.op = "GetRules" /\ ~ret.raced) => ReturnsOneVersion)
  /\ [][loader.config' # loader.config =>
          /\ arg.load = "validated" /\ arg'.load = "stored"
          /\ loader'.config = arg.pending.config
          /\ ValidatedVersion(loader'.config)]_vars

\* C11 witness: a reload replaced the main document by the strict one, and a
\* GetRules call after it returned rules of the strict document
C11_Witness ==
  /\ arg.op = "Reload" /\ ret.op = "GetRules"
  /\ ~ret.raced
  /\ loader.lastModified = 2
  /\ file.doc = "strict"
  /\ ret.config = Unmarshal(Docs["strict"]).config
  /\ Len(ret.rules) > 1
  /\ ReturnsOneVersion

\* a has_non_empty evaluation of the map validator returned a result that did
\* not pass
FailedHasNonEmpty ==
  /\ ret.op = "EvaluateRule"
  /\ arg.op = "EvaluateRule"
  /\ arg.metricType = "map"
  /\ arg.rule.Condition.Operator = "has_non_empty"
  /\ ret.result.hasResult
  /\ ~ret.result.Passed

\* C21: when a has_non_empty evaluation does not pass, the Message names the
\* label keys of the threshold that are missing from, or blank in, the actual
\* label map, and no others.
C21_MessageNamesMissingKeys ==
  FailedHasNonEmpty =>
    ret.result.Message.keys =
      {key \in DOMAIN ret.result.compared.m :
         \/ key \notin DOMAIN arg.actualValue.m
         \/ \A i \in 1..Len(arg.actualValue.m[key]) : IsSpace(arg.actualValue.m[key][i])}

\* the argument of the most recent SetEnvironment, "prod" before the first
EnvironmentInForce == IF arg.lastSet = "none" THEN "prod" ELSE arg.lastSet

\* C22: in a serialized sequence of calls on one Engine, EvaluateRule
\* resolves its threshold under the argument of the most recent
\* SetEnvironment, or under "prod" before the first; NewEngine, GetRules,
\* EvaluateRule, GetValidator and DetermineEnvironment leave the environment
\* as it is, whatever environment the document declares.
C22_EnvironmentIsTheLastSet ==
  /\ [](engine.exists =>
          /\ engine.environment = EnvironmentInForce
          /\ ret.op = "EvaluateRule" =>
               /\ ret.result.hasResult
               /\ ret.result.ExpectedValue =
                    Precedence(arg.in.rule.Condition, EnvironmentInForce)
               /\ ret.result.Passed =
                    (arg.in.actualValue.n >
                       Precedence(arg.in.rule.Condition, EnvironmentInForce).n))
  /\ [][ret'.op \in {"NewEngine", "GetRules", "EvaluateRule", "GetValidator",
                     "DetermineEnvironment"} =>
          /\ engine.exists => engine' = engine
          /\ (~engine.exists /\ engine'.exists) => engine'.environment = "prod"]_vars

\* C22 witness: the document declares environment "dev" and maps the cluster
\* to "dev", DetermineEnvironment was just asked, SetEnvironment was never
\* called: a rule with a "dev" threshold of 5 is evaluated against its
\* general threshold 90
C22_Witness ==
  /\ engine.exists
  /\ file.doc = "main"
  /\ engine.loader.config.Environment = "dev"
  /\ arg.lastSet = "none"
  /\ ret.op = "EvaluateRule"
  /\ arg.in.rule.Condition.Thresholds = Thresholds("dev" :> I(5))
  /\ arg.in.actualValue = F(7)
  /\ ret.result.ExpectedValue = I(90)
  /\ ~ret.result.Passed

\* the (rule, derived node metric) pairs that yield an item: the rule has
\* category node, is enabled, is on the metric, and its evaluation has no
\* error (the validator supports the operator and can coerce the threshold)
NodePairs ==
  {<<j, c>> \in (1..Len(LoadedRules)) \X NodeChecks(arg.node) :
     /\ LoadedRules[j].Category = "node"
     /\ LoadedRules[j].Enabled
     /\ LoadedRules[j].Condition.Metric = c.metric
     /\ LoadedRules[j].Condition.Operator \in SupportedOperators(c.metricType)
     /\ CoercibleThreshold(c.metricType,
                           Precedence(LoadedRules[j].Condition, ret.environment))}

\* what identifies the item of a pair, and what an item identifies itself by
PairName(pair) ==
  [RuleID |-> LoadedRules[pair[1]].ID, Metric |-> pair[2].metric,
   Severity |-> LoadedRules[pair[1]].Severity,
   Threshold |-> Sprint(Precedence(LoadedRules[pair[1]].Condition, ret.environment))]

ItemName(item) ==
  [RuleID |-> item.RuleID, Metric |-> item.Metric, Severity |-> item.Severity,
   Threshold |-> item.Threshold]

NodeAnalyzed == ret.op \in {"AnalyzeNode", "AnalyzeNode016"} /\ ret.hasResult

\* C23: AnalyzeNode produces exactly one item for each pair of a derived node
\* metric and an enabled node rule on that metric whose evaluation has no
\* error, and no other item: items and pairs match one to one, every item is
\* of category node and on a derived node metric.
C23_OneItemPerNodePair ==
  NodeAnalyzed =>
    /\ Len(ret.Items) = Cardinality(NodePairs)
    /\ \A name \in {ItemName(ret.Items[i]) : i \in 1..Len(ret.Items)}
                   \cup {PairName(pair) : pair \in NodePairs} :
         Cardinality({i \in 1..Len(ret.Items) : ItemName(ret.Items[i]) = name})
           = Cardinality({pair \in NodePairs : PairName(pair) = name})
    /\ \A i \in 1..Len(ret.Items) :
         /\ ret.Items[i].Category = "node"
         /\ \E c \in NodeChecks(arg.node) : c.metric = ret.Items[i].Metric

\* C23 witness: the loaded set has a disabled node rule, pod rules and a rule
\* on a metric no node has; the result has items on utilization, allocation
\* rate and a pressure flag, and none of those rules
C23_Witness ==
  /\ NodeAnalyzed
  /\ \E j \in 1..Len(LoadedRules) :
       /\ LoadedRules[j].Category = "node" /\ ~LoadedRules[j].Enabled
       /\ \A i \in 1..Len(ret.Items) : ret.Items[i].RuleID # LoadedRules[j].ID
  /\ \E j \in 1..Len(LoadedRules) : LoadedRules[j].Category = "pod"
  /\ \E j \in 1..Len(LoadedRules) :
       /\ LoadedRules[j].Category = "node" /\ LoadedRules[j].Enabled
       /\ \A c \in NodeChecks(arg.node) : c.metric # LoadedRules[j].Condition.Metric
  /\ \E i \in 1..Len(ret.Items) : ret.Items[i].Metric = "cpu_utilization"
  /\ \E i \in 1..Len(ret.Items) : ret.Items[i].Metric = "cpu_allocation_rate"
  /\ \E i \in 1..Len(ret.Items) : ret.Items[i].Metric = "memory_pressure"

PodAnalyzed == ret.op = "AnalyzePod" /\ ret.hasResult

UtilizationMetrics == {"pod_cpu_utilization", "pod_memory_utilization"}

PodUtilization(container, metric) ==
  IF metric = "pod_cpu_utilization" THEN container.CPU.Utilization
  ELSE container.Memory.Utilization

\* the enabled pod rules on a utilization metric whose condition is a numeric
\* comparison against a number
UtilizationRules ==
  {j \in 1..Len(LoadedRules) :
     /\ LoadedRules[j].Category = "pod"
     /\ LoadedRules[j].Enabled
     /\ LoadedRules[j].Condition.Metric \in UtilizationMetrics
     /\ LoadedRules[j].Condition.Operator \in NumericOperators
     /\ IsNumber(Precedence(LoadedRules[j].Condition, ret.environment))}

UtilizationName(j) ==
  [RuleID |-> LoadedRules[j].ID, Metric |-> LoadedRules[j].Condition.Metric,
   Severity |-> LoadedRules[j].Severity,
   Threshold |-> Sprint(Precedence(LoadedRules[j].Condition, ret.environment))]

\* container i's utilization satisfies rule j's condition
UtilizationSatisfies(j, i) ==
  ConditionMet(LoadedRules[j].Condition.Operator,
               PodUtilization(arg.pod.Containers[i], LoadedRules[j].Condition.Metric),
               toFloat64(Precedence(LoadedRules[j].Condition, ret.environment)).n)

\* the containers rule j is held against: every container, or only those whose
\* utilization on the rule's metric is above zero
ContainersUnder(j, measuredOnly) ==
  {i \in 1..Len(arg.pod.Containers) :
     measuredOnly =>
       PodUtilization(arg.pod.Containers[i], LoadedRules[j].Condition.Metric) > 0}

\* the failing items of each utilization rule are as many as the containers
\* that satisfy its condition
FailingItemsMatch(measuredOnly) ==
  \A j \in UtilizationRules :
    Cardinality({k \in 1..Len(ret.Items) :
                   ItemName(ret.Items[k]) = UtilizationName(j) /\ ~ret.Items[k].Passed})
      = Cardinality({<<r, i>> \in UtilizationRules \X (1..Len(arg.pod.Containers)) :
                       /\ UtilizationName(r) = UtilizationName(j)
                       /\ i \in ContainersUnder(r, measuredOnly)
                       /\ UtilizationSatisfies(r, i)})

\* C24 as stated: for each container and each enabled pod rule on
\* pod_cpu_utilization or pod_memory_utilization, AnalyzePod yields an item
\* with Passed=false if and only if the container's utilization satisfies the
\* rule's condition against the resolved threshold.
C24_FailingItemForEveryContainer == PodAnalyzed => FailingItemsMatch(FALSE)

\* C24 as amended: the same for each container whose utilization on the rule's
\* metric is above zero; such a container has one item per rule, failing if and
\* only if the condition is satisfied, and a container at zero has no item.
C24_FailingItemForEveryMeasuredContainer ==
  PodAnalyzed =>
    /\ FailingItemsMatch(TRUE)
    /\ \A j \in UtilizationRules :
         Cardinality({k \in 1..Len(ret.Items) : ItemName(ret.Items[k]) = UtilizationName(j)})
           = Cardinality({<<r, i>> \in UtilizationRules \X (1..Len(arg.pod.Containers)) :
                            /\ UtilizationName(r) = UtilizationName(j)
                            /\ i \in ContainersUnder(r, TRUE)})

\* C24 witness: a container at 95 percent CPU and 50 percent memory beside one
\* at zero CPU; the rule ">= 90" has a failing CPU item, the memory rule only
\* passing items, and the rule "< 10" no failing item for the idle container
C24_Witness ==
  /\ PodAnalyzed
  /\ ret.environment = "dev"
  /\ Len(arg.pod.Containers) = 2
  /\ arg.pod.Containers[1].CPU.Utilization = 95
  /\ arg.pod.Containers[1].Memory.Utilization = 50
  /\ arg.pod.Containers[2].CPU.Utilization = 0
  /\ \E k \in 1..Len(ret.Items) :
       /\ ret.Items[k].RuleID = "pod-cpu-high" /\ ret.Items[k].Metric = "pod_cpu_utilization"
       /\ ~ret.Items[k].Passed
  /\ \E k \in 1..Len(ret.Items) :
       ret.Items[k].Metric = "pod_memory_utilization" /\ ret.Items[k].Passed
  /\ \A k \in 1..Len(ret.Items) :
       ret.Items[k].Metric = "pod_memory_utilization" => ret.Items[k].Passed
  /\ \E j \in UtilizationRules : LoadedRules[j].Condition.Operator = "<"
  /\ \A k \in 1..Len(ret.Items) : ret.Items[k].RuleID = "pod-cpu-idle" => ret.Items[k].Passed

-----------------------------------------------------------------------------
(* The deployment checks: AllContainersHaveResourceLimits on a collected     *)
(* deployment. A ResourceSpec holds two maps from resource name to quantity. *)

ResourceLists ==
  {EmptyMap, "cpu" :> "500m", "cpu" :> "500m" @@ "memory" :> "256Mi"}

DeploymentContainers ==
  {[Resources |-> [Limits |-> limits, Requests |-> requests]] :
     limits \in ResourceLists, requests \in ResourceLists}

\* the loop of AllContainersHaveResourceLimits: the first container with an
\* empty Limits map or an empty Requests map returns false
RECURSIVE AllContainersHaveResourceLimits(_)
AllContainersHaveResourceLimits(containers) ==
  IF containers = <<>> THEN TRUE
  ELSE IF \/ Cardinality(DOMAIN Head(containers).Resources.Limits) = 0
          \/ Cardinality(DOMAIN Head(containers).Resources.Requests) = 0
       THEN FALSE
       ELSE AllContainersHaveResourceLimits(Tail(containers))

InitDeployment ==
  /\ file = NoFile
  /\ loader = NewRuleLoader
  /\ engine = NoEngine
  /\ arg \in [op : {"AllContainersHaveResourceLimits"},
              Containers : UNION {[1..n -> DeploymentContainers] : n \in 0..MaxContainers}]
  /\ ret = NoCall

AllContainersHaveResourceLimitsCall ==
  /\ arg.op = "AllContainersHaveResourceLimits"
  /\ ret = NoCall
  /\ ret' = [op |-> "AllContainersHaveResourceLimits",
             value |-> AllContainersHaveResourceLimits(arg.Containers)]
  /\ UNCHANGED <<file, loader, engine, arg>>

NextDeployment == AllContainersHaveResourceLimitsCall

SpecDeployment == InitDeployment /\ [][NextDeployment]_vars

\* C25: AllContainersHaveResourceLimits returns true exactly when every
\* container of the deployment has at least one limit entry, and false as soon
\* as one container has no limits.
C25_TrueExactlyWhenEveryContainerHasLimits ==
  ret.op = "AllContainersHaveResourceLimits" =>
    (ret.value <=> \A i \in 1..Len(arg.Containers) :
                     DOMAIN arg.Containers[i].Resources.Limits # {})

\* C26: a LoadRules call that fails after an earlier successful load leaves the
\* loaded rule set and the stored modification marker as they were, GetRules
\* returns the same rules after it as before it, and, where the file can be
\* examined, the loader does not take it for the file already loaded, so the
\* next LoadRules reads it again.
C26_FailedLoadKeepsLoadedSet ==
  [][(ret'.op = "LoadRules" /\ ret'.err # "" /\ loader.config # NoConfig) =>
       /\ loader'.config = loader.config
       /\ loader'.lastModified = loader.lastModified
       /\ \A filter \in Filters : GetRules(loader', filter) = GetRules(loader, filter)
       /\ file'.status \notin {"missing", "noaccess"} => ~MarkerUnchanged(loader', file')]_vars

\* C26 witness: with a rule set loaded, LoadRules has just failed on a
\* rewritten file that does not parse; the stored marker is still the one of
\* the earlier load and GetRules still returns rules
C26_Witness ==
  /\ ret.op = "LoadRules"
  /\ ret.err = "yaml parse failed"
  /\ file.status = "ok"
  /\ file.doc = "malformed"
  /\ loader.config # NoConfig
  /\ loader.lastModified # file.mtime
  /\ GetRules(loader, EmptyFilter) # <<>>

\* the engine of the recorded call with every disabled rule taken out of its
\* loaded set
EnabledOnly(rule) == rule.Enabled

WithoutDisabledRules(e) ==
  [e EXCEPT !.loader.config.Rules = SelectSeq(e.loader.config.Rules, EnabledOnly)]

\* the recorded analysis is one the analyzer can return on the rule set without
\* its disabled rules
SameAsWithoutDisabledRules ==
  Analyzed =>
    /\ CASE ret.op = "AnalyzeNode" ->
              ret.Items \in AnalyzeNodeItems(WithoutDisabledRules(EngineAt(ret.environment)),
                                             arg.node)
         [] ret.op = "AnalyzeNode016" ->
              ret.Items \in AnalyzeNodeItems016(WithoutDisabledRules(EngineAt(ret.environment)),
                                                arg.node)
         [] ret.op = "AnalyzePod" ->
              ret.Items = AnalyzePodItems(WithoutDisabledRules(EngineAt(ret.environment)),
                                          arg.pod)
    /\ ret.HealthScore = calculateHealthScore(ret.Items)

\* C27: no item of an analysis carries the RuleID of a disabled rule of the
\* loaded set, and the items and HealthScore are those of the same analysis
\* with every disabled rule absent from the rule set.
C27_NoItemOfADisabledRule ==
  /\ Analyzed =>
       \A i \in 1..Len(ret.Items), j \in 1..Len(LoadedRules) :
         ~LoadedRules[j].Enabled => ret.Items[i].RuleID # LoadedRules[j].ID
  /\ SameAsWithoutDisabledRules

\* the loaded rules that have thresholds per environment only, none of them for
\* the environment of the recorded analysis: no Threshold, no "default" entry
EnvironmentOnlyRules ==
  {j \in 1..Len(LoadedRules) :
     /\ LoadedRules[j].Condition.Threshold = Nil
     /\ ~LoadedRules[j].Condition.Thresholds.isNil
     /\ DOMAIN LoadedRules[j].Condition.Thresholds.m # {}
     /\ "default" \notin DOMAIN LoadedRules[j].Condition.Thresholds.m
     /\ ret.environment \notin DOMAIN LoadedRules[j].Condition.Thresholds.m}

\* C28: a loaded rule with per-environment thresholds only, under an
\* environment that is none of their keys, resolves to a nil threshold;
\* EvaluateRule returns an error and no result for every registered value kind
\* and every actual value, and the analysis has no item of that rule.
C28_NilThresholdIsAnError ==
  Analyzed =>
    \A j \in EnvironmentOnlyRules :
      /\ getThresholdValue(LoadedRules[j].Condition, ret.environment) = Nil
      /\ \A metricType \in engine.validators, value \in EvalValues :
           /\ ~EvaluateRule(EngineAt(ret.environment), LoadedRules[j], metricType,
                            value).hasResult
           /\ EvaluateRule(EngineAt(ret.environment), LoadedRules[j], metricType,
                           value).err # ""
      /\ \A i \in 1..Len(ret.Items) :
           ~(/\ ret.Items[i].RuleID = LoadedRules[j].ID
             /\ ret.Items[i].Threshold = Sprint(Nil))

\* C28 witness: under "prod" the loaded set has an enabled rule on
\* memory_utilization whose only threshold is for "dev"; the node has a memory
\* utilization, its other memory rule has an item, this rule has none
C28_Witness ==
  /\ NodeAnalyzed
  /\ ret.environment = "prod"
  /\ \E j \in EnvironmentOnlyRules :
       /\ LoadedRules[j].Enabled
       /\ LoadedRules[j].Category = "node"
       /\ LoadedRules[j].Condition.Metric = "memory_utilization"
       /\ \A i \in 1..Len(ret.Items) : ret.Items[i].RuleID # LoadedRules[j].ID
  /\ \E i \in 1..Len(ret.Items) : ret.Items[i].Metric = "memory_utilization"

\* the failing items of the recorded analysis with the given severity
FailingOf(severity) ==
  Cardinality({i \in 1..Len(ret.Items) :
                 ~ret.Items[i].Passed /\ ret.Items[i].Severity = severity})

\* C29: the HealthScore of an analysis is 100 less 20, 10 and 5 for each
\* failing item of severity critical, warning and info, floored at 0; a failing
\* item of any other severity subtracts nothing, so a result whose failing
\* items all have another severity has HealthScore 100.
C29_OtherSeveritiesSubtractNothing ==
  Analyzed =>
    /\ ret.HealthScore =
         IF 100 - (20 * FailingOf("critical") + 10 * FailingOf("warning")
                     + 5 * FailingOf("info")) < 0
         THEN 0
         ELSE 100 - (20 * FailingOf("critical") + 10 * FailingOf("warning")
                       + 5 * FailingOf("info"))
    /\ (\A i \in 1..Len(ret.Items) :
          ~ret.Items[i].Passed => ret.Items[i].Severity \notin {"critical", "warning", "info"})
         => ret.HealthScore = 100

\* C29 witness: an analysis whose only failing item has severity "error", a
\* severity the loader accepted, with HealthScore 100
C29_Witness ==
  /\ Analyzed
  /\ \E j \in 1..Len(LoadedRules) : LoadedRules[j].Severity = "error"
  /\ \E i \in 1..Len(ret.Items) : ~ret.Items[i].Passed /\ ret.Items[i].Severity = "error"
  /\ \A i \in 1..Len(ret.Items) : ~ret.Items[i].Passed => ret.Items[i].Severity = "error"
  /\ ret.HealthScore = 100

\* what the multiset of an item list counts
ItemKey(item) ==
  [RuleID |-> item.RuleID, Metric |-> item.Metric, Passed |-> item.Passed,
   Severity |-> item.Severity]

SameMultiset(a, b) ==
  /\ Len(a) = Len(b)
  /\ \A key \in {ItemKey(a[i]) : i \in 1..Len(a)} :
       Cardinality({i \in 1..Len(a) : ItemKey(a[i]) = key})
         = Cardinality({i \in 1..Len(b) : ItemKey(b[i]) = key})

\* the item lists the recorded AnalyzeNode call could have returned, one for
\* each order in which the metric maps can be iterated
NodeRuns ==
  IF ret.op = "AnalyzeNode"
  THEN AnalyzeNodeItems(EngineAt(ret.environment), arg.node)
  ELSE AnalyzeNodeItems016(EngineAt(ret.environment), arg.node)

\* C30: for the loaded rule set, environment and node of an AnalyzeNode call,
\* every run returns the same HealthScore and the same multiset of
\* (RuleID, Metric, Passed, Severity) items as the recorded one.
C30_RunsDifferOnlyInOrder ==
  NodeAnalyzed =>
    \A items \in NodeRuns :
      /\ calculateHealthScore(items) = ret.HealthScore
      /\ SameMultiset(items, ret.Items)

\* C30 witness: another run of the same call returns the items in another
\* order, with a failing item among them
C30_Witness ==
  /\ NodeAnalyzed
  /\ \E items \in NodeRuns : items # ret.Items
  /\ \E i \in 1..Len(ret.Items) : ~ret.Items[i].Passed
  /\ ret.HealthScore < 100

====
